---- MODULE Spec2Model ----
(***************************************************************************)
(* Model of chromeos::Network and its variants (network_library.cc):       *)
(* the connection-state mirror (Network::SetState, Network::InitIPAddress) *)
(* and the certificate-pattern suspension point of a connection attempt    *)
(* (WifiNetwork / VirtualNetwork ::MatchCertificatePattern).               *)
(***************************************************************************)
EXTENDS Integers, Sequences, FiniteSets, TLC

(***************************************************************************)
(* Enumerations.  The enumerators are the ones the switch statements of    *)
(* Network::GetStateString and Network::GetErrorString list.               *)
(***************************************************************************)
ConnectionState ==
    {"STATE_UNKNOWN", "STATE_IDLE", "STATE_CARRIER", "STATE_ASSOCIATION",
     "STATE_CONFIGURATION", "STATE_READY", "STATE_DISCONNECT",
     "STATE_FAILURE", "STATE_ACTIVATION_FAILURE", "STATE_PORTAL",
     "STATE_ONLINE"}

ConnectionError ==
    {"ERROR_NO_ERROR", "ERROR_OUT_OF_RANGE", "ERROR_PIN_MISSING",
     "ERROR_DHCP_FAILED", "ERROR_CONNECT_FAILED", "ERROR_BAD_PASSPHRASE",
     "ERROR_BAD_WEPKEY", "ERROR_ACTIVATION_FAILED", "ERROR_NEED_EVDO",
     "ERROR_NEED_HOME_NETWORK", "ERROR_OTASP_FAILED", "ERROR_AAA_FAILED",
     "ERROR_INTERNAL", "ERROR_DNS_LOOKUP_FAILED", "ERROR_HTTP_GET_FAILED",
     "ERROR_IPSEC_PSK_AUTH_FAILED", "ERROR_IPSEC_CERT_AUTH_FAILED",
     "ERROR_PPP_AUTH_FAILED", "ERROR_UNKNOWN"}

ConnectionType == {"TYPE_ETHERNET", "TYPE_WIFI", "TYPE_CELLULAR", "TYPE_VPN"}

\* ClientCertType and ProviderType (network_library.h).
ClientCertType ==
    {"CLIENT_CERT_TYPE_NONE", "CLIENT_CERT_TYPE_REF", "CLIENT_CERT_TYPE_PATTERN"}

ProviderType ==
    {"PROVIDER_TYPE_L2TP_IPSEC_PSK", "PROVIDER_TYPE_L2TP_IPSEC_USER_CERT",
     "PROVIDER_TYPE_OPEN_VPN"}

\* ConnectionSecurity and EAPMethod: the enumerators the switch statements
\* of WifiNetwork::GetEncryptionString list.
ConnectionSecurity ==
    {"SECURITY_UNKNOWN", "SECURITY_NONE", "SECURITY_WEP", "SECURITY_WPA",
     "SECURITY_RSN", "SECURITY_8021X", "SECURITY_PSK"}

EAPMethod ==
    {"EAP_METHOD_UNKNOWN", "EAP_METHOD_PEAP", "EAP_METHOD_TLS",
     "EAP_METHOD_TTLS", "EAP_METHOD_LEAP"}

ActivationState ==
    {"ACTIVATION_STATE_UNKNOWN", "ACTIVATION_STATE_ACTIVATED",
     "ACTIVATION_STATE_ACTIVATING", "ACTIVATION_STATE_NOT_ACTIVATED",
     "ACTIVATION_STATE_PARTIALLY_ACTIVATED"}

EAPPhase2Auth ==
    {"EAP_PHASE_2_AUTH_AUTO", "EAP_PHASE_2_AUTH_MD5",
     "EAP_PHASE_2_AUTH_MSCHAPV2", "EAP_PHASE_2_AUTH_MSCHAP",
     "EAP_PHASE_2_AUTH_PAP", "EAP_PHASE_2_AUTH_CHAP"}

\* The daemon's service properties written by the certificate matching.
kOpenVPNClientCertIdProperty == "OpenVPN.Pkcs11.ID"
kL2tpIpsecClientCertIdProperty == "L2TPIPsec.ClientCertID"
kEapCertIdProperty == "EAP.CertID"
kEapKeyIdProperty == "EAP.KeyID"


\* The daemon's service properties written by the credential setters.
kPassphraseProperty == "Passphrase"
kEapIdentityProperty == "EAP.Identity"
kEapAnonymousIdentityProperty == "EAP.AnonymousIdentity"
kEapPasswordProperty == "EAP.Password"
kOpenVPNCaCertNSSProperty == "OpenVPN.CACertNSS"
kL2tpIpsecCaCertNssProperty == "L2TPIPsec.CACertNSS"
kL2tpIpsecPskProperty == "L2TPIPsec.PSK"
kL2tpIpsecUserProperty == "L2TPIPsec.User"
kL2tpIpsecPasswordProperty == "L2TPIPsec.Password"
kL2tpIpsecGroupNameProperty == "L2TPIPsec.GroupName"
kOpenVPNUserProperty == "OpenVPN.User"
kOpenVPNPasswordProperty == "OpenVPN.Password"
kOpenVPNOTPProperty == "OpenVPN.OTP"

ServiceProperties ==
    {kOpenVPNClientCertIdProperty, kL2tpIpsecClientCertIdProperty,
     kEapCertIdProperty, kEapKeyIdProperty}

\* The EAP method and the phase-2 authentication of a Wifi network, and
\* the values the daemon knows for them.
kEapMethodProperty == "EAP.EAP"
kEapPhase2AuthProperty == "EAP.InnerEAP"
kEapMethodPEAP == "PEAP"
kEapMethodTLS == "TLS"
kEapMethodTTLS == "TTLS"
kEapMethodLEAP == "LEAP"
kEapPhase2AuthPEAPMD5 == "auth=MD5"
kEapPhase2AuthPEAPMSCHAPV2 == "auth=MSCHAPV2"
kEapPhase2AuthTTLSMD5 == "autheap=MD5"
kEapPhase2AuthTTLSMSCHAPV2 == "autheap=MSCHAPV2"
kEapPhase2AuthTTLSMSCHAP == "autheap=MSCHAP"
kEapPhase2AuthTTLSPAP == "autheap=PAP"
kEapPhase2AuthTTLSCHAP == "autheap=CHAP"

\* The service properties the setters of WifiNetwork write.
WifiServiceProperties ==
    {kPassphraseProperty, kEapIdentityProperty,
     kEapAnonymousIdentityProperty, kEapPasswordProperty,
     kEapMethodProperty, kEapPhase2AuthProperty}

\* The service properties the setters of VirtualNetwork write.
VirtualServiceProperties ==
    {kOpenVPNCaCertNSSProperty, kL2tpIpsecCaCertNssProperty,
     kL2tpIpsecPskProperty, kL2tpIpsecUserProperty,
     kL2tpIpsecPasswordProperty, kL2tpIpsecGroupNameProperty,
     kOpenVPNUserProperty, kOpenVPNPasswordProperty, kOpenVPNOTPProperty}

\* The service properties the daemon holds for a network of the given type.
ServicePropertiesOf(type) ==
    ServiceProperties \cup
    (CASE type = "TYPE_WIFI" -> WifiServiceProperties
       [] type = "TYPE_VPN" -> VirtualServiceProperties
       [] OTHER -> {})

\* A property the daemon does not hold.
Unset == "<unset>"

\* GetMatch() found no certificate.
NoCert == "<no certificate>"

\* A NULL destination of the Set...Property helpers.
NULL == "<null>"

\* A heap cell that holds no object (never allocated, or deleted).
Free == "<free>"

\* The NULL base::Value pointer; the heap's addresses are 1..MaxHeap.
NullValue == 0

\* No parser is installed (the scoped_ptr holds NULL).
NoParser == [installed |-> FALSE, recognizes |-> {}]

\* The parser a NetworkDevice installs when it is constructed.
NativeNetworkDeviceParser ==
    [installed |-> TRUE, recognizes |-> {"Scanning", "Cellular.AllowRoaming"}]

\* Parsers that can be injected into a Network and into a NetworkDevice.
NetworkParsers ==
    {NoParser,
     [installed |-> TRUE, recognizes |-> {"Error", "Device"}],
     [installed |-> TRUE, recognizes |-> {"Error"}]}

NetworkDeviceParsers ==
    {NoParser, NativeNetworkDeviceParser,
     [installed |-> TRUE, recognizes |-> {"Scanning"}]}

\* The field a parser assigns on a key it recognizes.
FieldOfKey(key) ==
    CASE key = "Error" -> "error"
      [] key = "Device" -> "device_path"
      [] key = "Scanning" -> "scanning"
      [] key = "Cellular.AllowRoaming" -> "data_roaming_allowed"

\* CellularDataPlanType (the enumerators GetPlanDesciption switches on), by
\* their integer values.
CELLULAR_DATA_PLAN_UNLIMITED == 0
CELLULAR_DATA_PLAN_METERED_PAID == 1
CELLULAR_DATA_PLAN_METERED_BASE == 2

\* GetProperty leaves *value alone when it finds no entry.
NoValue == "<no value>"

(***************************************************************************)
(* Bounds of the model.                                                    *)
(***************************************************************************)
\* Number of connection attempts made on the network.
MaxAttempts == 2

\* PKCS#11 ids of the certificates the store can hold.
Pkcs11Ids == {"", "id1", "id2"}

\* Certificate patterns a network is configured with; the first is the
\* pattern a new CertificatePattern holds.
EmptyPattern == [empty |-> TRUE, enrollment_uri_list |-> <<>>]

Patterns ==
    {EmptyPattern,
     [empty |-> FALSE, enrollment_uri_list |-> <<>>],
     [empty |-> FALSE, enrollment_uri_list |-> <<"http://enroll">>]}

\* Default value of the SIM unlock retries count.
kDefaultSimUnlockRetriesCount == 999

\* Number of cells of the heap that holds base::Value objects.
MaxHeap == 4

\* The Network objects whose property maps are modelled.
NetIds == {1, 2}

\* Property indices used as keys of a property map.
PropertyIndices == {"PROPERTY_INDEX_PROXY_CONFIG", "PROPERTY_INDEX_UI_DATA"}

\* Contents of a base::Value.
Values == {"v1", "v2"}

\* Longest IP-config listing the daemon returns for a device.
MaxIPConfigs == 2

\* Error codes the daemon reports through set_error in the model.
ErrorInputs == {"ERROR_NO_ERROR", "ERROR_BAD_PASSPHRASE", "ERROR_UNKNOWN"}

\* Addresses found in an IP-config entry ("" is an entry without address).
Addresses == {"", "10.0.0.1", "10.0.0.2"}

\* Device paths a network is attached to ("" is no device).
DevicePaths == {"", "/device/wlan0"}

\* Property messages of the daemon: a key and a value.  The last key is
\* one no parser recognizes.
StatusMessages ==
    ({"Error"} \X ErrorInputs) \cup ({"Device"} \X DevicePaths)
    \cup ({"Scanning", "Cellular.AllowRoaming"} \X BOOLEAN)
    \cup {<<"Future.Key", "x">>}

\* Service paths the daemon assigns to a network.
ServicePaths == {"/service/1", "/service/2"}

\* Names of networks and host names of VPN servers.
Names == {"Home", "Work"}
Hostnames == {"vpn.a", "vpn.b"}

\* Names and SSIDs the daemon reports: one is plain text, one holds a
\* control character.
SsidInputs == {"Hello", "H\ti"}

\* Hex dumps of SSIDs the daemon reports, and strings that are not hex dumps.
HexSsidInputs == {"48656c6c6f", "48656C6C6F", "480969", "4g", "486", "zz"}

\* Passphrases the daemon remembers for a Wifi network ("" is none).
RememberedPassphrases == {"", "old", "new"}

\* Service paths the manager lists.
NetworkServicePaths ==
    {"/service/eth0", "/service/wifi1", "/service/wifi2", "/service/cell1"}

\* Largest number of paths in one service list.
MaxServices == 2

\* Number of Network objects constructed for one path.
MaxCreations == 1

\* The ONC policies (policy::key) and a policy that is not set.
PolicyNames == {"DeviceOpenNetworkConfiguration", "OpenNetworkConfiguration"}
NoPolicy == "<no policy>"

\* The ONC values a policy is set to.
kFakeONC == "{ \"GUID\": \"1234\" }"
PolicyValues == {kFakeONC, "{ \"GUID\": \"5678\" }"}

\* Security class the daemon reports for a Wifi network.
SecurityInputs == {"SECURITY_WEP"}

\* Strings a credential setter is called with.
Secrets == {"", "pw"}

\* Arguments the credential setters of a VPN are called with: a PSK
\* passphrase or a certificate id, a user name, a user passphrase, and a
\* group name or a one-time password.
VpnCredentialInputs ==
    {<<"pw", "user", "pw", "grp">>, <<"", "user", "", "">>,
     <<"pw", "", "", "grp">>}

\* State the daemon reports while names and credentials are set.
StateInputs == {"STATE_READY"}

\* IP-config listings CrosListIPConfigs can return: NULL is modelled by the
\* empty listing, which the loop treats alike.
RECURSIVE SeqsUpTo(_, _)
SeqsUpTo(S, n) ==
    IF n = 0 THEN {<<>>}
    ELSE LET shorter == SeqsUpTo(S, n - 1)
         IN  shorter \cup {Append(s, x) : s \in {t \in shorter : Len(t) = n - 1}, x \in S}

IPConfigListings == SeqsUpTo(Addresses, MaxIPConfigs)

\* Latest time the clock reaches, in microseconds.
MaxNow == 3

\* Plan infos of the carrier whose allocation, usage and end time vary: the
\* usage is below, at and above the allocation, the end time before and
\* after the clock's times.
UsageInputs ==
    [plan_name : {"Plan"}, plan_type : {CELLULAR_DATA_PLAN_METERED_PAID},
     update_time : {0}, plan_start_time : {0}, plan_end_time : {0, 2, 5},
     plan_data_bytes : {0, 5, 10}, data_bytes_used : {0, 5, 11}]

\* Plan infos of the carrier whose every field varies; one name holds the
\* separator of the identifier.
PlanInputs ==
    [plan_name : {"Plan", "Plan|1"},
     plan_type : {CELLULAR_DATA_PLAN_UNLIMITED, CELLULAR_DATA_PLAN_METERED_PAID},
     update_time : {0, 1}, plan_start_time : {1, 11}, plan_end_time : {0, 10},
     plan_data_bytes : {0, 5}, data_bytes_used : {0, 6}]

\* Longest netmask, in tokens, that is not of four tokens.
MaxTokens == 5

\* Tokens of a netmask: the mask bytes, and tokens that are none.
TokenInputs ==
    {"255", "254", "252", "248", "240", "224", "192", "128", "0", "7", "256"}

\* Netmasks of an IP configuration, as the tokens between the dots: every
\* netmask of four tokens, and netmasks of fewer and more tokens.
NetmaskInputs ==
    {m \in SeqsUpTo(TokenInputs, 4) : Len(m) = 4}
    \cup SeqsUpTo({"255", "128", "0"}, MaxTokens)

VARIABLES
    net,          \* the fields of the Network object
    cros_loaded,  \* CrosLibrary::Get()->libcros_loaded()
    call,         \* the last method called on the network and its argument
    old,          \* the fields of the Network object when that call began
    refreshed,    \* whether that call ran InitIPAddress
    daemon,       \* the service properties the daemon holds for the network
    dcheck_is_on, \* whether the build compiles DCHECKs in
    crashed,      \* a DCHECK failed and ended the process
    attempts,     \* number of AttemptConnection calls made so far
    runs,         \* runs[k]: how often the closure of attempt k has run
    held,         \* closures the enrollment handler holds
    events,       \* what that call did, in order
    old_daemon,   \* the daemon's properties when that call began
    property_map, \* property_map[i]: property_map_ of Network i, index -> address
    heap,         \* heap[a]: the contents of the base::Value at address a
    caller_values,\* addresses of the values that callers own
    last_update,  \* last_update[i][x]: contents of the latest update of x, or NoValue
    old_property_map, \* property_map when the last call began
    old_heap,     \* heap when the last call began
    device,       \* the fields of a NetworkDevice object
    network_parser, \* network_parser_ of the network
    device_parser,  \* device_parser_ of the device
    status_result,  \* what the last UpdateStatus call returned
    parser_return,  \* <<b>> if that call's parser returned b, <<>> if none ran
    old_device,   \* the fields of the NetworkDevice when the last call began
    other,        \* the fields of a second Network object
    wiped,        \* wiped[f]: what string f held between the two statements
                  \* of WipeString(&f) in the last call, a tuple of characters
    plans,        \* plans[i]: the fields of CellularDataPlan i
    now,          \* base::Time::Now(), in microseconds
    ipconfig,     \* the fields of a NetworkIPConfig object
    returned,     \* what the last call returned
    library,      \* the maps, lists and pointers of the NetworkLibrary
    updater       \* the policy provider and the NetworkConfigurationUpdater

vars == <<net, cros_loaded, call, old, refreshed, daemon, dcheck_is_on,
          crashed, attempts, runs, held, events, old_daemon,
          property_map, heap, caller_values, last_update,
          old_property_map, old_heap, device, network_parser,
          device_parser, status_result, parser_return, old_device,
          other, wiped, plans, now, ipconfig, returned, library, updater>>

libVars == <<library, updater>>

dataVars == <<other, wiped, plans, now, ipconfig, returned, libVars>>

parseVars == <<device, network_parser, device_parser, status_result,
               parser_return, old_device>>

propVars == <<property_map, heap, caller_values, last_update,
              old_property_map, old_heap>>

stateVars == <<net, call, old, refreshed>>
certVars == <<daemon, crashed, attempts, runs, held, events, old_daemon>>

(***************************************************************************)
(* Helpers declared in network_library.h.                                  *)
(***************************************************************************)
IsConnectedState(state) ==
    state \in {"STATE_READY", "STATE_ONLINE", "STATE_PORTAL"}

IsConnectingState(state) ==
    state \in {"STATE_ASSOCIATION", "STATE_CONFIGURATION", "STATE_CARRIER"}

connected(n) == IsConnectedState(n.state)

EnsureCrosLoaded == cros_loaded

\* The fields WifiNetwork adds to Network, after WifiNetwork::WifiNetwork.
NewWifiFields ==
    [encryption                |-> "SECURITY_NONE",
     passphrase_required       |-> FALSE,
     eap_method                |-> "EAP_METHOD_UNKNOWN",
     eap_phase_2_auth          |-> "EAP_PHASE_2_AUTH_AUTO",
     passphrase                |-> "",
     user_passphrase           |-> "",
     eap_identity              |-> "",
     eap_anonymous_identity    |-> "",
     eap_passphrase            |-> ""]

\* The fields VirtualNetwork adds to Network, after
\* VirtualNetwork::VirtualNetwork.
NewVirtualFields ==
    [server_hostname           |-> "",
     username                  |-> "",
     group_name                |-> "",
     ca_cert_nss               |-> "",
     psk_passphrase            |-> "",
     user_passphrase           |-> "",
     psk_passphrase_required   |-> TRUE,
     user_passphrase_required  |-> TRUE]

\* The fields CellularNetwork adds to Network, after
\* CellularNetwork::CellularNetwork.
NewCellularFields ==
    [activation_state          |-> "ACTIVATION_STATE_UNKNOWN",
     network_technology        |-> "NETWORK_TECHNOLOGY_UNKNOWN",
     roaming_state             |-> "ROAMING_STATE_UNKNOWN",
     using_post                |-> FALSE,
     data_left                 |-> "DATA_UNKNOWN"]

\* The fields of the subclass of Network that has the given type.
NewSubclassFields(type) ==
    CASE type = "TYPE_WIFI" -> NewWifiFields
      [] type = "TYPE_VPN" -> NewVirtualFields
      [] type = "TYPE_CELLULAR" -> NewCellularFields
      [] OTHER -> <<>>

\* Network::Network, VirtualNetwork::VirtualNetwork and
\* WifiNetwork::WifiNetwork: the fields after construction.  The Wifi
\* constructor does not initialise eap_client_cert_type_, so its value is
\* whatever the caller of NewNetwork draws.
NewNetwork(type, eap_client_cert_type) ==
    NewSubclassFields(type) @@
    [type                      |-> type,
     state                     |-> "STATE_UNKNOWN",
     error                     |-> "ERROR_NO_ERROR",
     connection_started        |-> FALSE,
     notify_failure            |-> FALSE,
     ip_address                |-> "",
     device_path               |-> "",
     client_cert_pattern       |-> EmptyPattern,
     enrollment_handler        |-> FALSE,
     provider_type             |-> "PROVIDER_TYPE_L2TP_IPSEC_PSK",
     client_cert_type          |-> "CLIENT_CERT_TYPE_NONE",
     client_cert_id            |-> "",
     eap_client_cert_type      |-> eap_client_cert_type,
     eap_client_cert_pkcs11_id |-> "",
     service_path              |-> "",
     name                      |-> "",
     unique_id                 |-> ""]

\* The first non-empty address of an IP-config listing, "" if there is none.
RECURSIVE FirstAddress(_)
FirstAddress(ips) ==
    IF ips = <<>> THEN ""
    ELSE IF Head(ips) # "" THEN Head(ips)
    ELSE FirstAddress(Tail(ips))

\* A variant of InitIPAddress with a slip, used to test the theorems: the
\* address is not cleared before the listing is looked at.
InitIPAddress_KeepsOld(n, ips) ==
    IF ~EnsureCrosLoaded
    THEN n
    ELSE IF connected(n) /\ n.device_path # ""
         THEN [n EXCEPT !.ip_address = FirstAddress(ips)]
         ELSE n

\* Network::InitIPAddress; ips is what CrosListIPConfigs returns.
InitIPAddress(n, ips) ==
    IF ~EnsureCrosLoaded
    THEN [n EXCEPT !.ip_address = ""]
    ELSE IF connected(n) /\ n.device_path # ""
         THEN [n EXCEPT !.ip_address = FirstAddress(ips)]
         ELSE [n EXCEPT !.ip_address = ""]

(***************************************************************************)
(* Network::SetState.                                                      *)
(***************************************************************************)
\* The branch "if (new_state == STATE_FAILURE)" of SetState: a failure that
\* is entered from a state other than STATE_UNKNOWN and STATE_IDLE is a new
\* failure, the user is notified and a missing error code is defaulted.
\* Variants of NewFailure with one slip each, used to test the theorems.
\* The previous state is not looked at: every failure is a new failure.
NewFailure_AnyOldState(n, old_state) ==
    [n EXCEPT !.notify_failure = TRUE,
              !.error = IF n.error = "ERROR_NO_ERROR"
                        THEN "ERROR_UNKNOWN" ELSE n.error]

\* The error code is overwritten even when one was recorded.
NewFailure_ErrorOverwritten(n, old_state) ==
    IF old_state # "STATE_UNKNOWN" /\ old_state # "STATE_IDLE"
    THEN [n EXCEPT !.notify_failure = TRUE, !.error = "ERROR_UNKNOWN"]
    ELSE n

\* The missing error code is not defaulted.
NewFailure_NoDefaultError(n, old_state) ==
    IF old_state # "STATE_UNKNOWN" /\ old_state # "STATE_IDLE"
    THEN [n EXCEPT !.notify_failure = TRUE]
    ELSE n

NewFailure(n, old_state) ==
    IF old_state # "STATE_UNKNOWN" /\ old_state # "STATE_IDLE"
    THEN [n EXCEPT !.notify_failure = TRUE,
                   !.error = IF n.error = "ERROR_NO_ERROR"
                             THEN "ERROR_UNKNOWN" ELSE n.error]
    ELSE n

\* Variants of SetState with one slip each, used to test the theorems.
\* No early return when the state does not change.
SetState_NoEarlyReturn(n, new_state, ips) ==
    LET old_state == n.state
        n1 == [n EXCEPT !.state = new_state]
        n2 == IF ~IsConnectingState(new_state)
              THEN [n1 EXCEPT !.connection_started = FALSE]
              ELSE n1
    IN  IF new_state = "STATE_FAILURE"
        THEN [n |-> NewFailure(n2, old_state), refreshed |-> FALSE]
        ELSE [n |-> InitIPAddress(n2, ips), refreshed |-> TRUE]

\* A network in STATE_FAILURE only accepts STATE_IDLE.
SetState_RejectsAfterFailure(n, new_state, ips) ==
    IF new_state = n.state
       \/ (n.state = "STATE_FAILURE" /\ new_state # "STATE_IDLE")
    THEN [n |-> n, refreshed |-> FALSE]
    ELSE LET old_state == n.state
             n1 == [n EXCEPT !.state = new_state]
             n2 == IF ~IsConnectingState(new_state)
                   THEN [n1 EXCEPT !.connection_started = FALSE]
                   ELSE n1
         IN  IF new_state = "STATE_FAILURE"
             THEN [n |-> NewFailure(n2, old_state), refreshed |-> FALSE]
             ELSE [n |-> InitIPAddress(n2, ips), refreshed |-> TRUE]

\* The IP address is refreshed on a failure too.
SetState_RefreshAlways(n, new_state, ips) ==
    IF new_state = n.state
    THEN [n |-> n, refreshed |-> FALSE]
    ELSE LET old_state == n.state
             n1 == [n EXCEPT !.state = new_state]
             n2 == IF ~IsConnectingState(new_state)
                   THEN [n1 EXCEPT !.connection_started = FALSE]
                   ELSE n1
         IN  IF new_state = "STATE_FAILURE"
             THEN [n |-> InitIPAddress(NewFailure(n2, old_state), ips),
                   refreshed |-> TRUE]
             ELSE [n |-> InitIPAddress(n2, ips), refreshed |-> TRUE]

\* connection_started is cleared on the state that is left, not on the
\* state that is entered.
SetState_ClearsOnOldState(n, new_state, ips) ==
    IF new_state = n.state
    THEN [n |-> n, refreshed |-> FALSE]
    ELSE LET old_state == n.state
             n1 == [n EXCEPT !.state = new_state]
             n2 == IF ~IsConnectingState(old_state)
                   THEN [n1 EXCEPT !.connection_started = FALSE]
                   ELSE n1
         IN  IF new_state = "STATE_FAILURE"
             THEN [n |-> NewFailure(n2, old_state), refreshed |-> FALSE]
             ELSE [n |-> InitIPAddress(n2, ips), refreshed |-> TRUE]

\* The error code is cleared when a connected state is entered.
SetState_ClearsErrorOnConnected(n, new_state, ips) ==
    IF new_state = n.state
    THEN [n |-> n, refreshed |-> FALSE]
    ELSE LET old_state == n.state
             n1 == [n EXCEPT !.state = new_state]
             n2 == IF ~IsConnectingState(new_state)
                   THEN [n1 EXCEPT !.connection_started = FALSE]
                   ELSE n1
             n3 == IF IsConnectedState(new_state)
                   THEN [n2 EXCEPT !.error = "ERROR_NO_ERROR"]
                   ELSE n2
         IN  IF new_state = "STATE_FAILURE"
             THEN [n |-> NewFailure(n3, old_state), refreshed |-> FALSE]
             ELSE [n |-> InitIPAddress(n3, ips), refreshed |-> TRUE]

\* The failure branch is also taken when STATE_FAILURE is the state that is
\* left.
SetState_FailureOnOldState(n, new_state, ips) ==
    IF new_state = n.state
    THEN [n |-> n, refreshed |-> FALSE]
    ELSE LET old_state == n.state
             n1 == [n EXCEPT !.state = new_state]
             n2 == IF ~IsConnectingState(new_state)
                   THEN [n1 EXCEPT !.connection_started = FALSE]
                   ELSE n1
         IN  IF new_state = "STATE_FAILURE" \/ old_state = "STATE_FAILURE"
             THEN [n |-> NewFailure(n2, old_state), refreshed |-> FALSE]
             ELSE [n |-> InitIPAddress(n2, ips), refreshed |-> TRUE]

\* Network::SetState(new_state) on the fields n.  The result holds the new
\* fields and whether InitIPAddress was run.
\* Leaving STATE_FAILURE takes the notification back.
SetState_ForgetsFailure(n, new_state, ips) ==
    IF new_state = n.state
    THEN [n |-> n, refreshed |-> FALSE]
    ELSE LET old_state == n.state
             n1 == [n EXCEPT !.state = new_state]
             n2 == IF ~IsConnectingState(new_state)
                   THEN [n1 EXCEPT !.connection_started = FALSE]
                   ELSE n1
         IN  IF new_state = "STATE_FAILURE"
             THEN [n |-> NewFailure(n2, old_state), refreshed |-> FALSE]
             ELSE [n |-> InitIPAddress([n2 EXCEPT !.notify_failure = FALSE], ips),
                   refreshed |-> TRUE]

SetState(n, new_state, ips) ==
    IF new_state = n.state
    THEN [n |-> n, refreshed |-> FALSE]
    ELSE LET old_state == n.state
             n1 == [n EXCEPT !.state = new_state]
             n2 == IF ~IsConnectingState(new_state)
                   THEN [n1 EXCEPT !.connection_started = FALSE]
                   ELSE n1
         IN  IF new_state = "STATE_FAILURE"
             THEN [n |-> NewFailure(n2, old_state), refreshed |-> FALSE]
             ELSE [n |-> InitIPAddress(n2, ips), refreshed |-> TRUE]


(***************************************************************************)
(* Property writes.  A call in progress is a record c of the network's     *)
(* fields (n), the daemon's properties (d), the events of the call so far  *)
(* (ev) and whether a DCHECK ended the process (crashed).                  *)
(***************************************************************************)
Event(c, ev, prop, value) ==
    [c EXCEPT !.ev = Append(@, [ev |-> ev, prop |-> prop, value |-> value])]

\* DCHECK(cond): ends the process when cond fails in a build with DCHECKs.
DCHECK(c, cond) ==
    IF dcheck_is_on /\ ~cond THEN [c EXCEPT !.crashed = TRUE] ELSE c

\* Network::SetValueProperty with a string value.
SetValueProperty(c, prop, value) ==
    IF ~EnsureCrosLoaded
    THEN c
    ELSE Event([c EXCEPT !.d[prop] = value], "SetProperty", prop, value)

\* Network::ClearProperty.
ClearProperty(c, prop) ==
    IF ~EnsureCrosLoaded
    THEN c
    ELSE Event([c EXCEPT !.d[prop] = Unset], "ClearProperty", prop, "")

\* Network::SetStringProperty; dest names the field to assign, or is NULL.
SetStringProperty(c, prop, str, dest) ==
    SetValueProperty(IF dest # NULL THEN [c EXCEPT !.n[dest] = str] ELSE c,
                     prop, str)

\* Network::SetOrClearStringProperty.
SetOrClearStringProperty(c, prop, str, dest) ==
    IF str = ""
    THEN LET c1 == ClearProperty(c, prop)
         IN  IF dest # NULL THEN [c1 EXCEPT !.n[dest] = ""] ELSE c1
    ELSE SetStringProperty(c, prop, str, dest)

\* A variant of SetEAPClientCertPkcs11Id with a slip, used to test the
\* theorems: the KeyID is set, never cleared.
SetEAPClientCertPkcs11Id_KeyIdNeverCleared(c, pkcs11_id) ==
    SetStringProperty(
        SetOrClearStringProperty(c, kEapCertIdProperty, pkcs11_id,
                                 "eap_client_cert_pkcs11_id"),
        kEapKeyIdProperty, pkcs11_id, NULL)

\* WifiNetwork::SetEAPClientCertPkcs11Id.
SetEAPClientCertPkcs11Id(c, pkcs11_id) ==
    SetOrClearStringProperty(
        SetOrClearStringProperty(c, kEapCertIdProperty, pkcs11_id,
                                 "eap_client_cert_pkcs11_id"),
        kEapKeyIdProperty, pkcs11_id, NULL)

\* closure.Run().
Run(c) == Event(c, "Run", "", "")

\* enrollment_handler()->Enroll(uri_list, closure); c.closure is the closure
\* the call in progress was given.
Enroll(c, uri_list) == Event(c, "Enroll", c.closure, uri_list)

\* The closures a sequence of events hands to the enrollment handler.
EnrolledClosures(evs) ==
    {evs[i].prop : i \in {j \in 1..Len(evs) : evs[j].ev = "Enroll"}}

\* client_cert_pattern()->GetMatch().
GetMatch(c) == Event(c, "GetMatch", "", "")

(***************************************************************************)
(* MatchCertificatePattern and AttemptConnection.  match is the PKCS#11 id *)
(* of the certificate GetMatch finds, or NoCert.                           *)
(***************************************************************************)
\* Variant with a slip: no return after the closure was handed to the
\* enrollment handler.
VirtualNetwork_MatchCertificatePattern_NoReturn(c, match) ==
    LET c1 == DCHECK(c, c.n.client_cert_type = "CLIENT_CERT_TYPE_PATTERN")
        c2 == DCHECK(c1, ~c.n.client_cert_pattern.empty)
    IN  IF c2.crashed THEN c2
        ELSE IF c.n.client_cert_pattern.empty THEN Run(c2)
        ELSE LET c3 == GetMatch(c2)
             IN  IF match # NoCert
                 THEN Run(SetStringProperty(c3,
                          IF c.n.provider_type = "PROVIDER_TYPE_OPEN_VPN"
                          THEN kOpenVPNClientCertIdProperty
                          ELSE kL2tpIpsecClientCertIdProperty,
                          match, "client_cert_id"))
                 ELSE IF c.n.enrollment_handler
                      THEN Run(Enroll(c3,
                               c.n.client_cert_pattern.enrollment_uri_list))
                      ELSE Run(c3)

\* Variant with a slip: the certificate id always goes to the L2TP/IPsec
\* property.
VirtualNetwork_MatchCertificatePattern_WrongProperty(c, match) ==
    LET c1 == DCHECK(c, c.n.client_cert_type = "CLIENT_CERT_TYPE_PATTERN")
        c2 == DCHECK(c1, ~c.n.client_cert_pattern.empty)
    IN  IF c2.crashed THEN c2
        ELSE IF c.n.client_cert_pattern.empty THEN Run(c2)
        ELSE LET c3 == GetMatch(c2)
             IN  IF match # NoCert
                 THEN Run(SetStringProperty(c3,
                          kL2tpIpsecClientCertIdProperty,
                          match, "client_cert_id"))
                 ELSE IF c.n.enrollment_handler
                      THEN Enroll(c3,
                               c.n.client_cert_pattern.enrollment_uri_list)
                      ELSE Run(c3)

\* Variant with a slip: without a certificate and without an enrollment
\* handler the closure is dropped.
VirtualNetwork_MatchCertificatePattern_DropsClosure(c, match) ==
    LET c1 == DCHECK(c, c.n.client_cert_type = "CLIENT_CERT_TYPE_PATTERN")
        c2 == DCHECK(c1, ~c.n.client_cert_pattern.empty)
    IN  IF c2.crashed THEN c2
        ELSE IF c.n.client_cert_pattern.empty THEN Run(c2)
        ELSE LET c3 == GetMatch(c2)
             IN  IF match # NoCert
                 THEN Run(SetStringProperty(c3,
                          IF c.n.provider_type = "PROVIDER_TYPE_OPEN_VPN"
                          THEN kOpenVPNClientCertIdProperty
                          ELSE kL2tpIpsecClientCertIdProperty,
                          match, "client_cert_id"))
                 ELSE IF c.n.enrollment_handler
                      THEN Enroll(c3,
                               c.n.client_cert_pattern.enrollment_uri_list)
                      ELSE c3

\* VirtualNetwork::MatchCertificatePattern.
VirtualNetwork_MatchCertificatePattern(c, match) ==
    LET c1 == DCHECK(c, c.n.client_cert_type = "CLIENT_CERT_TYPE_PATTERN")
        c2 == DCHECK(c1, ~c.n.client_cert_pattern.empty)
    IN  IF c2.crashed THEN c2
        ELSE IF c.n.client_cert_pattern.empty THEN Run(c2)
        ELSE LET c3 == GetMatch(c2)
             IN  IF match # NoCert
                 THEN Run(SetStringProperty(c3,
                          IF c.n.provider_type = "PROVIDER_TYPE_OPEN_VPN"
                          THEN kOpenVPNClientCertIdProperty
                          ELSE kL2tpIpsecClientCertIdProperty,
                          match, "client_cert_id"))
                 ELSE IF c.n.enrollment_handler
                      THEN Enroll(c3,
                               c.n.client_cert_pattern.enrollment_uri_list)
                      ELSE Run(c3)

\* Variant with a slip: no return after the closure was handed to the
\* enrollment handler.
WifiNetwork_MatchCertificatePattern_NoReturn(c, match) ==
    LET c1 == DCHECK(c, c.n.eap_client_cert_type = "CLIENT_CERT_TYPE_PATTERN")
        c2 == DCHECK(c1, ~c.n.client_cert_pattern.empty)
    IN  IF c2.crashed THEN c2
        ELSE IF c.n.client_cert_pattern.empty THEN Run(c2)
        ELSE LET c3 == GetMatch(c2)
             IN  IF match # NoCert
                 THEN Run(SetEAPClientCertPkcs11Id(c3, match))
                 ELSE IF c.n.enrollment_handler
                      THEN Run(Enroll(c3,
                               c.n.client_cert_pattern.enrollment_uri_list))
                      ELSE Run(c3)

\* WifiNetwork::MatchCertificatePattern.
WifiNetwork_MatchCertificatePattern(c, match) ==
    LET c1 == DCHECK(c, c.n.eap_client_cert_type = "CLIENT_CERT_TYPE_PATTERN")
        c2 == DCHECK(c1, ~c.n.client_cert_pattern.empty)
    IN  IF c2.crashed THEN c2
        ELSE IF c.n.client_cert_pattern.empty THEN Run(c2)
        ELSE LET c3 == GetMatch(c2)
             IN  IF match # NoCert
                 THEN Run(SetEAPClientCertPkcs11Id(c3, match))
                 ELSE IF c.n.enrollment_handler
                      THEN Enroll(c3,
                               c.n.client_cert_pattern.enrollment_uri_list)
                      ELSE Run(c3)

\* Variant with a slip: the closure is not run.
Network_AttemptConnection_Deferred(c) == c

\* Network::AttemptConnection.
Network_AttemptConnection(c) == Run(c)

\* VirtualNetwork::AttemptConnection.
VirtualNetwork_AttemptConnection(c, match) ==
    VirtualNetwork_MatchCertificatePattern(c, match)

\* WifiNetwork::AttemptConnection.
WifiNetwork_AttemptConnection(c, match) ==
    WifiNetwork_MatchCertificatePattern(c, match)

\* How many events of kind ev a sequence of events holds.
RECURSIVE CountEvents(_, _)
CountEvents(evs, ev) ==
    IF evs = <<>> THEN 0
    ELSE (IF Head(evs).ev = ev THEN 1 ELSE 0) + CountEvents(Tail(evs), ev)


(***************************************************************************)
(* The property map of a Network.  A map is a function from the indices    *)
(* that have an entry to the address of the base::Value the entry owns.    *)
(***************************************************************************)
Addrs == 1..MaxHeap

\* The map without the entry of index.
Erase(pm, index) == [x \in DOMAIN pm \ {index} |-> pm[x]]

\* The map with the entry of index set to the address a.
Store(pm, index, a) ==
    [x \in DOMAIN pm \cup {index} |-> IF x = index THEN a ELSE pm[x]]

\* delete on a base::Value pointer (delete NULL does nothing).
Delete(h, a) == IF a = NullValue THEN h ELSE [h EXCEPT ![a] = Free]

\* The heap after the deletions UpdatePropertyMap(index, value) makes before
\* it allocates: the previous value of the entry, if there is one.
HeapAfterDelete(pm, h, index) ==
    IF index \in DOMAIN pm THEN Delete(h, pm[index]) ELSE h

\* Variants of UpdatePropertyMap with one slip each.
\* An existing entry is kept (std::map::insert instead of operator[]).
UpdatePropertyMap_KeepsFirst(pm, h, index, value, a) ==
    IF value = NullValue
    THEN IF index \in DOMAIN pm
         THEN [pm |-> Erase(pm, index), h |-> Delete(h, pm[index])]
         ELSE [pm |-> pm, h |-> h]
    ELSE IF index \in DOMAIN pm
         THEN [pm |-> pm, h |-> h]
         ELSE [pm |-> Store(pm, index, a), h |-> [h EXCEPT ![a] = h[value]]]

\* The pointer is stored instead of a deep copy.
UpdatePropertyMap_NoDeepCopy(pm, h, index, value, a) ==
    IF value = NullValue
    THEN IF index \in DOMAIN pm
         THEN [pm |-> Erase(pm, index), h |-> Delete(h, pm[index])]
         ELSE [pm |-> pm, h |-> h]
    ELSE [pm |-> Store(pm, index, value), h |-> HeapAfterDelete(pm, h, index)]

\* Network::UpdatePropertyMap(index, value) on the map pm and the heap h;
\* value is the address of the caller's value or NullValue, a is the address
\* value->DeepCopy() allocates.
UpdatePropertyMap(pm, h, index, value, a) ==
    IF value = NullValue
    THEN IF index \in DOMAIN pm
         THEN [pm |-> Erase(pm, index), h |-> Delete(h, pm[index])]
         ELSE [pm |-> pm, h |-> h]
    ELSE LET h1 == HeapAfterDelete(pm, h, index)
         IN  [pm |-> Store(pm, index, a), h |-> [h1 EXCEPT ![a] = h[value]]]

\* Network::GetProperty(index, &value): whether there is an entry, and the
\* value the returned pointer points to.
GetProperty(pm, h, index) ==
    IF index \notin DOMAIN pm
    THEN [found |-> FALSE, value |-> NoValue]
    ELSE [found |-> TRUE, value |-> h[pm[index]]]

\* Network::~Network: every value of the map is deleted.
RECURSIVE DeleteAll(_, _)
DeleteAll(h, as) ==
    IF as = {} THEN h
    ELSE LET a == CHOOSE x \in as : TRUE
         IN  DeleteAll(Delete(h, a), as \ {a})

InitProps ==
    /\ property_map = [i \in NetIds |-> <<>>]
    /\ heap = [a \in Addrs |-> Free]
    /\ caller_values = {}
    /\ last_update = [i \in NetIds |-> [x \in PropertyIndices |-> NoValue]]
    /\ old_property_map = property_map
    /\ old_heap = heap


(***************************************************************************)
(* UpdateStatus of a Network and of a NetworkDevice.                       *)
(***************************************************************************)
\* NetworkDevice::NetworkDevice: the fields after construction.
NewNetworkDevice(device_path) ==
    [device_path          |-> device_path,
     type                 |-> "TYPE_UNKNOWN",
     scanning             |-> FALSE,
     sim_lock_state       |-> "SIM_UNKNOWN",
     sim_retries_left     |-> kDefaultSimUnlockRetriesCount,
     sim_pin_required     |-> "SIM_PIN_REQUIRE_UNKNOWN",
     prl_version          |-> 0,
     data_roaming_allowed |-> FALSE,
     support_network_scan |-> FALSE]

\* parser->UpdateStatus(key, value, entity, index): a key the parser
\* recognizes is assigned to its field and TRUE is returned, any other key
\* is ignored and FALSE is returned.
Parser_UpdateStatus(parser, key, value, entity) ==
    IF key \in parser.recognizes
    THEN [result |-> TRUE,
          entity |-> [entity EXCEPT ![FieldOfKey(key)] = value],
          parser |-> <<TRUE>>]
    ELSE [result |-> FALSE, entity |-> entity, parser |-> <<FALSE>>]

\* Variant with a slip: TRUE is returned whenever a parser is installed.
Network_UpdateStatus_IgnoresResult(n, parser, key, value) ==
    IF parser.installed
    THEN [Parser_UpdateStatus(parser, key, value, n) EXCEPT !.result = TRUE]
    ELSE [result |-> FALSE, entity |-> n, parser |-> <<>>]

\* Network::UpdateStatus.
Network_UpdateStatus(n, parser, key, value) ==
    IF parser.installed
    THEN Parser_UpdateStatus(parser, key, value, n)
    ELSE [result |-> FALSE, entity |-> n, parser |-> <<>>]

\* NetworkDevice::UpdateStatus.
NetworkDevice_UpdateStatus(d, parser, key, value) ==
    IF parser.installed
    THEN Parser_UpdateStatus(parser, key, value, d)
    ELSE [result |-> FALSE, entity |-> d, parser |-> <<>>]

InitParsers ==
    /\ device = NewNetworkDevice("/device/wlan0")
    /\ network_parser = NoParser
    /\ device_parser = NativeNetworkDeviceParser
    /\ status_result = FALSE
    /\ parser_return = <<>>
    /\ old_device = device

(***************************************************************************)
(* Credentials, cellular data plans and IP configurations: the state after *)
(* construction.                                                           *)
(***************************************************************************)
\* The strings WifiNetwork::EraseCredentials wipes.
WifiCredentials ==
    {"passphrase", "user_passphrase", "eap_client_cert_pkcs11_id",
     "eap_identity", "eap_anonymous_identity", "eap_passphrase"}

\* The strings VirtualNetwork::EraseCredentials wipes.
VirtualCredentials ==
    {"ca_cert_nss", "psk_passphrase", "client_cert_id", "user_passphrase"}

\* The strings <type>::EraseCredentials wipes.
CredentialsOf(type) ==
    CASE type = "TYPE_WIFI" -> WifiCredentials
      [] type = "TYPE_VPN" -> VirtualCredentials
      [] OTHER -> {}

\* CellularDataPlan::CellularDataPlan(): the times are default base::Time
\* objects, whose internal value is 0.
NewCellularDataPlan ==
    [plan_name       |-> "Unknown",
     plan_type       |-> CELLULAR_DATA_PLAN_UNLIMITED,
     update_time     |-> 0,
     plan_start_time |-> 0,
     plan_end_time   |-> 0,
     plan_data_bytes |-> 0,
     data_bytes_used |-> 0]

\* The cellular data plans, and the networks, that are compared.
PlanIds == {1, 2}

\* NetworkIPConfig::NetworkIPConfig: netmask is held as the tokens that
\* StringTokenizer(netmask, ".") yields.
NewNetworkIPConfig(netmask) == [netmask |-> netmask]

\* No call has returned a value.
NoReturn == <<>>

\* No object of the class has been constructed.
NoObject == <<>>

\* The NetworkLibrary before the manager has listed any service: no network
\* is tracked.  created[path] counts the Network objects constructed for
\* the path so far; event and before keep the last manager event and the
\* canonical map it found.
NewNetworkLibrary ==
    [network_map           |-> [path \in {} |-> NULL],
     network_unique_id_map |-> [id \in {} |-> NULL],
     wifi_networks         |-> <<>>,
     cellular_networks     |-> <<>>,
     ethernet              |-> NULL,
     active_wifi           |-> NULL,
     active_cellular       |-> NULL,
     requested             |-> {},
     created               |-> [path \in NetworkServicePaths |-> 0],
     event                 |-> [op |-> "construct", arg |-> <<>>],
     before                |-> [path \in {} |-> NULL]]

\* The policy provider with no policy set and no NetworkConfigurationUpdater
\* constructed yet.  applied[name] is the configuration the updater pushed
\* last for the policy, loads the LoadOncNetworks calls of the last step.
NewUpdater ==
    [policy      |-> [name \in PolicyNames |-> NoPolicy],
     constructed |-> FALSE,
     applied     |-> [name \in PolicyNames |-> ""],
     loads       |-> <<>>,
     event       |-> "SetUp",
     before      |-> [name \in PolicyNames |-> ""]]

InitLib ==
    /\ library = NewNetworkLibrary
    /\ updater = NewUpdater

InitData ==
    /\ other = NoObject
    /\ wiped = <<>>
    /\ plans = <<>>
    /\ now = 0
    /\ ipconfig = NoObject
    /\ InitLib
    /\ returned = NoReturn

(***************************************************************************)
(* Unique ids.                                                             *)
(***************************************************************************)
\* SecurityToString (declared outside this file): the name of the security
\* class.
SecurityToString(encryption) ==
    CASE encryption = "SECURITY_UNKNOWN" -> "UNKNOWN"
      [] encryption = "SECURITY_NONE" -> "NONE"
      [] encryption = "SECURITY_WEP" -> "WEP"
      [] encryption = "SECURITY_WPA" -> "WPA"
      [] encryption = "SECURITY_RSN" -> "RSN"
      [] encryption = "SECURITY_8021X" -> "8021X"
      [] encryption = "SECURITY_PSK" -> "PSK"

\* ProviderTypeToString (declared outside this file): the name of the
\* provider type.
ProviderTypeToString(provider_type) ==
    CASE provider_type = "PROVIDER_TYPE_L2TP_IPSEC_PSK" -> "L2TP_IPSEC_PSK"
      [] provider_type = "PROVIDER_TYPE_L2TP_IPSEC_USER_CERT" -> "L2TP_IPSEC_USER_CERT"
      [] provider_type = "PROVIDER_TYPE_OPEN_VPN" -> "OPEN_VPN"

\* Network::CalculateUniqueId.
Network_CalculateUniqueId(n) == [n EXCEPT !.unique_id = n.name]

\* VirtualNetwork::CalculateUniqueId.
VirtualNetwork_CalculateUniqueId(n) ==
    LET provider_type == ProviderTypeToString(n.provider_type)
    IN  [n EXCEPT !.unique_id = provider_type \o "|" \o n.server_hostname]

\* A variant of WifiNetwork::CalculateUniqueId with a slip, used to test
\* the theorems: WPA and RSN are not converted to PSK.
WifiNetwork_CalculateUniqueId_NotNormalised(n) ==
    LET security == SecurityToString(n.encryption)
    IN  [n EXCEPT !.unique_id = security \o "|" \o n.name]

\* WifiNetwork::CalculateUniqueId.
WifiNetwork_CalculateUniqueId(n) ==
    LET encryption == IF n.encryption = "SECURITY_WPA"
                         \/ n.encryption = "SECURITY_RSN"
                      THEN "SECURITY_PSK"
                      ELSE n.encryption
        security == SecurityToString(encryption)
    IN  [n EXCEPT !.unique_id = security \o "|" \o n.name]

\* network->CalculateUniqueId(), dispatched on the network's type.
CalculateUniqueId(n) ==
    CASE n.type = "TYPE_WIFI" -> WifiNetwork_CalculateUniqueId(n)
      [] n.type = "TYPE_VPN" -> VirtualNetwork_CalculateUniqueId(n)
      [] OTHER -> Network_CalculateUniqueId(n)


(***************************************************************************)
(* Names and credentials.                                                  *)
(***************************************************************************)
\* The characters of the strings that are modelled, by their code.
Ascii ==
    (9 :> "\t") @@ (10 :> "\n") @@ (72 :> "H") @@ (101 :> "e") @@
    (105 :> "i") @@ (108 :> "l") @@ (111 :> "o") @@ (124 :> "|")

\* The code of a character.
CodePoint(ch) == CHOOSE code \in DOMAIN Ascii : Ascii[code] = ch

\* REPLACEMENT CHARACTER (U+FFFD).
kReplacementCharacter == "<U+FFFD>"

\* The first code point that is not a control character.
kFirstPrintable == 32

\* ValidateUTF8: every character that is not readable or is a control
\* character is replaced by U+FFFD.  The strings of the model are ASCII, so
\* every byte is a readable character.
RECURSIVE ValidateUTF8(_)
ValidateUTF8(str) ==
    IF str = "" THEN ""
    ELSE LET ch == SubSeq(str, 1, 1)
             out == IF CodePoint(ch) >= kFirstPrintable
                    THEN ch ELSE kReplacementCharacter
         IN  out \o ValidateUTF8(SubSeq(str, 2, Len(str)))

\* A variant of Network::SetName with a slip, used to test the theorems:
\* the unique id is kept in step with the name.
Network_SetName_Recalculates(n, name) ==
    CalculateUniqueId([n EXCEPT !.name = ValidateUTF8(name)])

\* Network::SetName.
Network_SetName(n, name) == [n EXCEPT !.name = ValidateUTF8(name)]

\* WifiNetwork::SetSsid.  The strings of the model are ASCII, which
\* IsStringUTF8 accepts, so ssid_utf8 stays empty and the SSID is the name.
WifiNetwork_SetSsid(n, ssid) ==
    [n |-> Network_SetName(n, ssid), returned |-> TRUE]

\* The value of a hexadecimal digit, -1 for any other character.
HexDigit(ch) ==
    CASE ch = "0" -> 0 [] ch = "1" -> 1 [] ch = "2" -> 2 [] ch = "3" -> 3
      [] ch = "4" -> 4 [] ch = "5" -> 5 [] ch = "6" -> 6 [] ch = "7" -> 7
      [] ch = "8" -> 8 [] ch = "9" -> 9
      [] ch \in {"a", "A"} -> 10 [] ch \in {"b", "B"} -> 11
      [] ch \in {"c", "C"} -> 12 [] ch \in {"d", "D"} -> 13
      [] ch \in {"e", "E"} -> 14 [] ch \in {"f", "F"} -> 15
      [] OTHER -> -1

\* base::HexStringToBytes on a string that is not empty: whether the string
\* is a hex dump, and the bytes it is a dump of.
RECURSIVE HexStringToBytes(_)
HexStringToBytes(hex) ==
    IF hex = "" THEN [ok |-> TRUE, bytes |-> <<>>]
    ELSE IF Len(hex) = 1 THEN [ok |-> FALSE, bytes |-> <<>>]
    ELSE LET hi == HexDigit(SubSeq(hex, 1, 1))
             lo == HexDigit(SubSeq(hex, 2, 2))
             rest == HexStringToBytes(SubSeq(hex, 3, Len(hex)))
         IN  IF hi < 0 \/ lo < 0 \/ ~rest.ok
             THEN [ok |-> FALSE, bytes |-> <<>>]
             ELSE [ok |-> TRUE, bytes |-> <<16 * hi + lo>> \o rest.bytes]

\* std::string(ssid_raw.begin(), ssid_raw.end()).
RECURSIVE StringOfBytes(_)
StringOfBytes(bytes) ==
    IF bytes = <<>> THEN ""
    ELSE Ascii[Head(bytes)] \o StringOfBytes(Tail(bytes))

\* A variant of WifiNetwork::SetHexSsid with a slip, used to test the
\* theorems: a string that is not a hex dump becomes the name as it is.
WifiNetwork_SetHexSsid_KeepsIllegal(n, ssid_hex) ==
    LET r == HexStringToBytes(ssid_hex)
    IN  IF ~r.ok
        THEN [n |-> [n EXCEPT !.name = ssid_hex], returned |-> FALSE]
        ELSE WifiNetwork_SetSsid(n, StringOfBytes(r.bytes))

\* WifiNetwork::SetHexSsid.
WifiNetwork_SetHexSsid(n, ssid_hex) ==
    LET r == HexStringToBytes(ssid_hex)
    IN  IF ~r.ok
        THEN [n |-> n, returned |-> FALSE]
        ELSE WifiNetwork_SetSsid(n, StringOfBytes(r.bytes))

\* WifiNetwork::GetPassphrase.
WifiNetwork_GetPassphrase(n) ==
    IF n.user_passphrase # "" THEN n.user_passphrase ELSE n.passphrase

\* WifiNetwork::SetPassphrase.
WifiNetwork_SetPassphrase(c, passphrase) ==
    LET c1 == IF passphrase # ""
              THEN [c EXCEPT !.n.user_passphrase = passphrase,
                             !.n.passphrase = passphrase]
              ELSE [c EXCEPT !.n.user_passphrase = c.n.passphrase]
    IN  SetOrClearStringProperty(c1, kPassphraseProperty, passphrase, NULL)

\* WifiNetwork::SetEAPIdentity.
WifiNetwork_SetEAPIdentity(c, identity) ==
    SetOrClearStringProperty(c, kEapIdentityProperty, identity,
                             "eap_identity")

\* WifiNetwork::SetEAPAnonymousIdentity.
WifiNetwork_SetEAPAnonymousIdentity(c, identity) ==
    SetOrClearStringProperty(c, kEapAnonymousIdentityProperty, identity,
                             "eap_anonymous_identity")

\* WifiNetwork::SetEAPPassphrase.
WifiNetwork_SetEAPPassphrase(c, passphrase) ==
    SetOrClearStringProperty(c, kEapPasswordProperty, passphrase,
                             "eap_passphrase")

\* VirtualNetwork::SetCACertNSS.
VirtualNetwork_SetCACertNSS(c, ca_cert_nss) ==
    IF c.n.provider_type = "PROVIDER_TYPE_OPEN_VPN"
    THEN SetStringProperty(c, kOpenVPNCaCertNSSProperty, ca_cert_nss,
                           "ca_cert_nss")
    ELSE SetStringProperty(c, kL2tpIpsecCaCertNssProperty, ca_cert_nss,
                           "ca_cert_nss")

\* VirtualNetwork::SetL2TPIPsecPSKCredentials.
VirtualNetwork_SetL2TPIPsecPSKCredentials(c, psk_passphrase, username, user_passphrase, group_name) ==
    LET c1 == IF psk_passphrase # ""
              THEN SetStringProperty(c, kL2tpIpsecPskProperty,
                                     psk_passphrase, "psk_passphrase")
              ELSE c
        c2 == SetStringProperty(c1, kL2tpIpsecUserProperty, username,
                                "username")
        c3 == IF user_passphrase # ""
              THEN SetStringProperty(c2, kL2tpIpsecPasswordProperty,
                                     user_passphrase, "user_passphrase")
              ELSE c2
    IN  SetStringProperty(c3, kL2tpIpsecGroupNameProperty, group_name,
                          "group_name")

\* VirtualNetwork::SetL2TPIPsecCertCredentials.
VirtualNetwork_SetL2TPIPsecCertCredentials(c, client_cert_id, username, user_passphrase, group_name) ==
    LET c1 == SetStringProperty(c, kL2tpIpsecClientCertIdProperty,
                                client_cert_id, "client_cert_id")
        c2 == SetStringProperty(c1, kL2tpIpsecUserProperty, username,
                                "username")
        c3 == IF user_passphrase # ""
              THEN SetStringProperty(c2, kL2tpIpsecPasswordProperty,
                                     user_passphrase, "user_passphrase")
              ELSE c2
    IN  SetStringProperty(c3, kL2tpIpsecGroupNameProperty, group_name,
                          "group_name")

\* VirtualNetwork::SetOpenVPNCredentials.
VirtualNetwork_SetOpenVPNCredentials(c, client_cert_id, username, user_passphrase, otp) ==
    LET c1 == SetStringProperty(c, kOpenVPNClientCertIdProperty,
                                client_cert_id, "client_cert_id")
        c2 == SetStringProperty(c1, kOpenVPNUserProperty, username,
                                "username")
        c3 == IF user_passphrase # ""
              THEN SetStringProperty(c2, kOpenVPNPasswordProperty,
                                     user_passphrase, "user_passphrase")
              ELSE c2
    IN  SetStringProperty(c3, kOpenVPNOTPProperty, otp, NULL)

\* The NUL character.
NUL == "<NUL>"

\* The characters of a string, as a tuple.
Chars(str) == [i \in 1..Len(str) |-> SubSeq(str, i, i)]

\* A variant of WipeString with a slip, used to test the theorems: the
\* string is cleared without being overwritten first.
WipeString_ClearOnly(str) == [assigned |-> Chars(str), cleared |-> ""]

\* WipeString(&str): the characters the string holds after
\* str->assign(str->size(), '\0'), and the string after str->clear().
WipeString(str) ==
    [assigned |-> [i \in 1..Len(str) |-> NUL], cleared |-> ""]

\* A variant of <type>::EraseCredentials with a slip, used to test the
\* theorems: the user passphrase is not wiped.
EraseCredentials_KeepsUserPassphrase(n) ==
    LET fields == CredentialsOf(n.type) \ {"user_passphrase"}
    IN  [n |-> [f \in DOMAIN n |->
                    IF f \in fields THEN WipeString(n[f]).cleared ELSE n[f]],
         wiped |-> [f \in fields |-> WipeString(n[f]).assigned]]

\* network->EraseCredentials(), dispatched on the network's type:
\* WipeString on each of the credentials of VirtualNetwork and of
\* WifiNetwork, nothing on a Network of another type.
EraseCredentials(n) ==
    LET fields == CredentialsOf(n.type)
    IN  [n |-> [f \in DOMAIN n |->
                    IF f \in fields THEN WipeString(n[f]).cleared ELSE n[f]],
         wiped |-> [f \in fields |-> WipeString(n[f]).assigned]]


(***************************************************************************)
(* NetworkIPConfig::GetPrefixLength.                                       *)
(***************************************************************************)
\* The number of one-bits the token adds to the prefix, -1 for a token that
\* is not a mask byte.
MaskBits(token) ==
    CASE token = "255" -> 8 [] token = "254" -> 7 [] token = "252" -> 6
      [] token = "248" -> 5 [] token = "240" -> 4 [] token = "224" -> 3
      [] token = "192" -> 2 [] token = "128" -> 1 [] token = "0" -> 0
      [] OTHER -> -1

\* The while loop of GetPrefixLength over the tokens that are left; the
\* result tells whether the loop returned -1, and count and prefixlen at
\* its end.
RECURSIVE PrefixLengthLoop(_, _, _)
PrefixLengthLoop(tokens, count, prefixlen) ==
    IF tokens = <<>>
    THEN [invalid |-> FALSE, count |-> count, prefixlen |-> prefixlen]
    ELSE LET token == Head(tokens)
             fail == [invalid |-> TRUE, count |-> count,
                      prefixlen |-> prefixlen]
         IN  IF count = 4 THEN fail
             ELSE IF prefixlen \div 8 # count
                  THEN IF token # "0" THEN fail
                       ELSE PrefixLengthLoop(Tail(tokens), count + 1,
                                             prefixlen)
                  ELSE IF MaskBits(token) < 0 THEN fail
                       ELSE PrefixLengthLoop(Tail(tokens), count + 1,
                                             prefixlen + MaskBits(token))

\* A variant of GetPrefixLength with a slip, used to test the theorems: a
\* netmask of fewer than four tokens is accepted.
GetPrefixLength_AcceptsShort(config) ==
    LET r == PrefixLengthLoop(config.netmask, 0, 0)
    IN  IF r.invalid THEN -1 ELSE r.prefixlen

\* NetworkIPConfig::GetPrefixLength.
GetPrefixLength(config) ==
    LET r == PrefixLengthLoop(config.netmask, 0, 0)
    IN  IF r.invalid THEN -1
        ELSE IF r.count < 4 THEN -1
        ELSE r.prefixlen


(***************************************************************************)
(* CellularDataPlan.                                                       *)
(***************************************************************************)
\* CellularDataPlan::CellularDataPlan(const CellularDataPlanInfo&).
CellularDataPlan(plan) ==
    [plan_name       |-> plan.plan_name,
     plan_type       |-> plan.plan_type,
     update_time     |-> plan.update_time,
     plan_start_time |-> plan.plan_start_time,
     plan_end_time   |-> plan.plan_end_time,
     plan_data_bytes |-> plan.plan_data_bytes,
     data_bytes_used |-> plan.data_bytes_used]

\* base::Int64ToString: the decimal digits of the number, after a minus
\* sign if it is negative.
RECURSIVE Int64ToString(_)
Int64ToString(value) ==
    IF value < 0 THEN "-" \o Int64ToString(0 - value)
    ELSE LET digit == <<"0", "1", "2", "3", "4", "5", "6", "7", "8", "9">>
                          [(value % 10) + 1]
         IN  IF value < 10 THEN digit
             ELSE Int64ToString(value \div 10) \o digit

\* A variant of GetUniqueIdentifier with a slip, used to test the theorems:
\* the byte cap is left out.
GetUniqueIdentifier_WithoutByteCap(plan) ==
    plan.plan_name \o "|" \o
    Int64ToString(plan.plan_type) \o "|" \o
    Int64ToString(plan.plan_start_time) \o "|" \o
    Int64ToString(plan.plan_end_time)

\* CellularDataPlan::GetUniqueIdentifier.
GetUniqueIdentifier(plan) ==
    plan.plan_name \o "|" \o
    Int64ToString(plan.plan_type) \o "|" \o
    Int64ToString(plan.plan_start_time) \o "|" \o
    Int64ToString(plan.plan_end_time) \o "|" \o
    Int64ToString(plan.plan_data_bytes)

\* A variant of remaining_time with a slip, used to test the theorems: the
\* time left is not clamped.
remaining_time_Unclamped(plan, time_now) == plan.plan_end_time - time_now

\* CellularDataPlan::remaining_time, in microseconds; time_now is what
\* base::Time::Now() returns.
remaining_time(plan, time_now) ==
    LET time == plan.plan_end_time - time_now
    IN  IF time < 0 THEN 0 ELSE time

\* A variant of remaining_data with a slip, used to test the theorems: the
\* difference is not clamped.
remaining_data_Unclamped(plan) == plan.plan_data_bytes - plan.data_bytes_used

\* CellularDataPlan::remaining_data.
remaining_data(plan) ==
    LET data == plan.plan_data_bytes - plan.data_bytes_used
    IN  IF data < 0 THEN 0 ELSE data


(***************************************************************************)
(* What a network needs before it connects.                                *)
(***************************************************************************)
\* VirtualNetwork::IsPSKPassphraseRequired.
IsPSKPassphraseRequired(n) ==
    n.psk_passphrase_required /\ n.psk_passphrase = ""

\* VirtualNetwork::IsUserPassphraseRequired.
IsUserPassphraseRequired(n) ==
    n.user_passphrase_required /\ n.user_passphrase = ""

\* A variant of VirtualNetwork::NeedMoreInfoToConnect with a slip, used to
\* test the theorems: OpenVPN is treated like L2TP/IPsec with a user
\* certificate.
VirtualNetwork_NeedMoreInfoToConnect_OpenVpnLikeCert(n) ==
    IF n.server_hostname = "" \/ n.username = ""
       \/ IsUserPassphraseRequired(n)
    THEN TRUE
    ELSE IF n.error # "ERROR_NO_ERROR"
    THEN TRUE
    ELSE CASE n.provider_type = "PROVIDER_TYPE_L2TP_IPSEC_PSK" ->
                 IsPSKPassphraseRequired(n)
           [] n.provider_type = "PROVIDER_TYPE_L2TP_IPSEC_USER_CERT" ->
                 n.client_cert_id = ""
           [] n.provider_type = "PROVIDER_TYPE_OPEN_VPN" ->
                 n.client_cert_id = ""

\* VirtualNetwork::NeedMoreInfoToConnect.
VirtualNetwork_NeedMoreInfoToConnect(n) ==
    IF n.server_hostname = "" \/ n.username = ""
       \/ IsUserPassphraseRequired(n)
    THEN TRUE
    ELSE IF n.error # "ERROR_NO_ERROR"
    THEN TRUE
    ELSE CASE n.provider_type = "PROVIDER_TYPE_L2TP_IPSEC_PSK" ->
                 IsPSKPassphraseRequired(n)
           [] n.provider_type = "PROVIDER_TYPE_L2TP_IPSEC_USER_CERT" ->
                 n.client_cert_id = ""
           [] n.provider_type = "PROVIDER_TYPE_OPEN_VPN" ->
                 IF n.client_cert_id = "" THEN TRUE ELSE TRUE

\* Network::RequiresUserProfile.
Network_RequiresUserProfile(n) == FALSE

\* VirtualNetwork::RequiresUserProfile.
VirtualNetwork_RequiresUserProfile(n) == TRUE

\* A variant of WifiNetwork::RequiresUserProfile with a slip, used to test
\* the theorems: the client certificate is not looked at.
WifiNetwork_RequiresUserProfile_IgnoresCert(n) ==
    IF n.encryption # "SECURITY_8021X" THEN FALSE
    ELSE IF n.eap_method # "EAP_METHOD_TLS" THEN FALSE
    ELSE TRUE

\* WifiNetwork::RequiresUserProfile.
WifiNetwork_RequiresUserProfile(n) ==
    IF n.encryption # "SECURITY_8021X" THEN FALSE
    ELSE IF n.eap_method # "EAP_METHOD_TLS" THEN FALSE
    ELSE IF n.eap_client_cert_pkcs11_id = ""
            /\ n.eap_client_cert_type # "CLIENT_CERT_TYPE_PATTERN"
    THEN FALSE
    ELSE TRUE

\* network->RequiresUserProfile(), dispatched on the network's type.
RequiresUserProfile(n) ==
    CASE n.type = "TYPE_WIFI" -> WifiNetwork_RequiresUserProfile(n)
      [] n.type = "TYPE_VPN" -> VirtualNetwork_RequiresUserProfile(n)
      [] OTHER -> Network_RequiresUserProfile(n)


(***************************************************************************)
(* The EAP method and the phase-2 authentication of a Wifi network.        *)
(***************************************************************************)
\* WifiNetwork::SetEAPPhase2Auth.
WifiNetwork_SetEAPPhase2Auth(c, auth) ==
    LET c1 == [c EXCEPT !.n.eap_phase_2_auth = auth]
        is_peap == c1.n.eap_method = "EAP_METHOD_PEAP"
    IN  CASE auth = "EAP_PHASE_2_AUTH_AUTO" ->
                 ClearProperty(c1, kEapPhase2AuthProperty)
          [] auth = "EAP_PHASE_2_AUTH_MD5" ->
                 SetStringProperty(c1, kEapPhase2AuthProperty,
                                   IF is_peap THEN kEapPhase2AuthPEAPMD5
                                   ELSE kEapPhase2AuthTTLSMD5, NULL)
          [] auth = "EAP_PHASE_2_AUTH_MSCHAPV2" ->
                 SetStringProperty(c1, kEapPhase2AuthProperty,
                                   IF is_peap THEN kEapPhase2AuthPEAPMSCHAPV2
                                   ELSE kEapPhase2AuthTTLSMSCHAPV2, NULL)
          [] auth = "EAP_PHASE_2_AUTH_MSCHAP" ->
                 SetStringProperty(c1, kEapPhase2AuthProperty,
                                   kEapPhase2AuthTTLSMSCHAP, NULL)
          [] auth = "EAP_PHASE_2_AUTH_PAP" ->
                 SetStringProperty(c1, kEapPhase2AuthProperty,
                                   kEapPhase2AuthTTLSPAP, NULL)
          [] auth = "EAP_PHASE_2_AUTH_CHAP" ->
                 SetStringProperty(c1, kEapPhase2AuthProperty,
                                   kEapPhase2AuthTTLSCHAP, NULL)

\* A variant of WifiNetwork::SetEAPMethod with a slip, used to test the
\* theorems: the phase-2 authentication is sent again for the new method.
WifiNetwork_SetEAPMethod_ResendsPhase2(c, method) ==
    LET c1 == [c EXCEPT !.n.eap_method = method]
        c2 == CASE method = "EAP_METHOD_PEAP" ->
                     SetStringProperty(c1, kEapMethodProperty, kEapMethodPEAP, NULL)
                [] method = "EAP_METHOD_TLS" ->
                     SetStringProperty(c1, kEapMethodProperty, kEapMethodTLS, NULL)
                [] method = "EAP_METHOD_TTLS" ->
                     SetStringProperty(c1, kEapMethodProperty, kEapMethodTTLS, NULL)
                [] method = "EAP_METHOD_LEAP" ->
                     SetStringProperty(c1, kEapMethodProperty, kEapMethodLEAP, NULL)
                [] OTHER -> ClearProperty(c1, kEapMethodProperty)
    IN  WifiNetwork_SetEAPPhase2Auth(c2, c2.n.eap_phase_2_auth)

\* WifiNetwork::SetEAPMethod.
WifiNetwork_SetEAPMethod(c, method) ==
    LET c1 == [c EXCEPT !.n.eap_method = method]
    IN  CASE method = "EAP_METHOD_PEAP" ->
                 SetStringProperty(c1, kEapMethodProperty, kEapMethodPEAP, NULL)
          [] method = "EAP_METHOD_TLS" ->
                 SetStringProperty(c1, kEapMethodProperty, kEapMethodTLS, NULL)
          [] method = "EAP_METHOD_TTLS" ->
                 SetStringProperty(c1, kEapMethodProperty, kEapMethodTTLS, NULL)
          [] method = "EAP_METHOD_LEAP" ->
                 SetStringProperty(c1, kEapMethodProperty, kEapMethodLEAP, NULL)
          [] OTHER -> ClearProperty(c1, kEapMethodProperty)


(***************************************************************************)
(* Credentials of a remembered VPN.                                        *)
(***************************************************************************)
\* A variant of CopyCredentialsFromRemembered with a slip, used to test the
\* theorems: the user name is copied whether or not one is set.
VirtualNetwork_CopyCredentialsFromRemembered_OverwritesUsername(n, remembered) ==
    LET n1 == IF n.ca_cert_nss = ""
              THEN [n EXCEPT !.ca_cert_nss = remembered.ca_cert_nss] ELSE n
        n2 == IF n1.psk_passphrase = ""
              THEN [n1 EXCEPT !.psk_passphrase = remembered.psk_passphrase]
              ELSE n1
        n3 == IF n2.client_cert_id = ""
              THEN [n2 EXCEPT !.client_cert_id = remembered.client_cert_id]
              ELSE n2
        n4 == [n3 EXCEPT !.username = remembered.username]
        n5 == IF n4.user_passphrase = ""
              THEN [n4 EXCEPT !.user_passphrase = remembered.user_passphrase]
              ELSE n4
    IN  [n |-> n5, remembered |-> remembered]

\* VirtualNetwork::CopyCredentialsFromRemembered; remembered is a
\* VirtualNetwork, as the DCHECK_EQ of its first line requires.
VirtualNetwork_CopyCredentialsFromRemembered(n, remembered) ==
    LET n1 == IF n.ca_cert_nss = ""
              THEN [n EXCEPT !.ca_cert_nss = remembered.ca_cert_nss] ELSE n
        n2 == IF n1.psk_passphrase = ""
              THEN [n1 EXCEPT !.psk_passphrase = remembered.psk_passphrase]
              ELSE n1
        n3 == IF n2.client_cert_id = ""
              THEN [n2 EXCEPT !.client_cert_id = remembered.client_cert_id]
              ELSE n2
        n4 == IF n3.username = ""
              THEN [n3 EXCEPT !.username = remembered.username] ELSE n3
        n5 == IF n4.user_passphrase = ""
              THEN [n4 EXCEPT !.user_passphrase = remembered.user_passphrase]
              ELSE n4
    IN  [n |-> n5, remembered |-> remembered]


(***************************************************************************)
(* Activation of a cellular network.                                       *)
(***************************************************************************)
\* A variant of StartActivation with a slip, used to test the theorems:
\* the activation state is left for the daemon to report.
CellularNetwork_StartActivation_WaitsForDaemon(n, activated) ==
    IF ~EnsureCrosLoaded
    THEN [n |-> n, returned |-> FALSE]
    ELSE IF ~activated
    THEN [n |-> n, returned |-> FALSE]
    ELSE [n |-> n, returned |-> TRUE]

\* CellularNetwork::StartActivation; activated is what
\* CrosActivateCellularModem returns.
CellularNetwork_StartActivation(n, activated) ==
    IF ~EnsureCrosLoaded
    THEN [n |-> n, returned |-> FALSE]
    ELSE IF ~activated
    THEN [n |-> n, returned |-> FALSE]
    ELSE [n |-> [n EXCEPT !.activation_state = "ACTIVATION_STATE_ACTIVATING"],
          returned |-> TRUE]


(***************************************************************************)
(* The NetworkLibrary: the canonical map of the visible networks and its   *)
(* secondary indices, kept up to date from the service lists of the        *)
(* manager.  A secondary index refers to a network by its service path.    *)
(***************************************************************************)
\* The type the manager declares for a service path.
DeclaredType(path) ==
    CASE path = "/service/eth0" -> "TYPE_ETHERNET"
      [] path = "/service/cell1" -> "TYPE_CELLULAR"
      [] OTHER -> "TYPE_WIFI"

\* The name the daemon reports for a service path.
ServiceName(path) ==
    CASE path = "/service/eth0" -> "eel"
      [] path = "/service/cell1" -> "Hole"
      [] path = "/service/wifi1" -> "Hi"
      [] OTHER -> "Hello"

\* The elements of a sequence.
Range(seq) == {seq[i] : i \in 1..Len(seq)}

\* A new Network object of the declared type for the path; object tells
\* the objects constructed for one path apart.
ConstructNetwork(lib, path) ==
    [object |-> lib.created[path] + 1,
     n      |-> [NewNetwork(DeclaredType(path), "CLIENT_CERT_TYPE_NONE")
                    EXCEPT !.service_path = path]]

\* A variant of ReconcileNetwork with a slip, used to test the theorems:
\* every listed network is constructed anew.
ReconcileNetwork_Recreates(lib, path) ==
    ConstructNetwork(lib, path)

\* The object for a listed path: the existing one if the path is tracked,
\* a new one otherwise.
ReconcileNetwork(lib, path) ==
    IF path \in DOMAIN lib.network_map
    THEN lib.network_map[path]
    ELSE ConstructNetwork(lib, path)

\* Whether a network is the active one of its type: connecting or
\* connected.
IsActive(entry) ==
    connected(entry.n) \/ IsConnectingState(entry.n.state)

\* The ordered list of the networks of one type, rebuilt from the map:
\* active networks first, and among equals the prior order, the new
\* networks last in the order of the service list.
RebuildList(prior, map, paths, type) ==
    LET Kept(path) == path \in DOMAIN map
        New(path) == /\ DeclaredType(path) = type
                     /\ path \notin Range(prior)
        merged == SelectSeq(prior, Kept) \o SelectSeq(paths, New)
        Active(path) == IsActive(map[path])
        Inactive(path) == ~IsActive(map[path])
    IN  SelectSeq(merged, Active) \o SelectSeq(merged, Inactive)

\* The active network of an ordered list, NULL if it has none.
ActiveNetwork(list, map) ==
    IF list # <<>> /\ IsActive(map[Head(list)]) THEN Head(list) ELSE NULL

\* The Ethernet network of the map, NULL if it has none.
EthernetNetwork(map) ==
    IF \E path \in DOMAIN map : DeclaredType(path) = "TYPE_ETHERNET"
    THEN CHOOSE path \in DOMAIN map : DeclaredType(path) = "TYPE_ETHERNET"
    ELSE NULL

\* The lists and pointers of the library, derived from a new map.
WithIndices(lib, map, paths) ==
    LET wifi == RebuildList(lib.wifi_networks, map, paths, "TYPE_WIFI")
        cellular == RebuildList(lib.cellular_networks, map, paths,
                                "TYPE_CELLULAR")
    IN  [lib EXCEPT
            !.network_map = map,
            !.network_unique_id_map =
                [id \in {i \in DOMAIN lib.network_unique_id_map :
                            lib.network_unique_id_map[i] \in DOMAIN map}
                    |-> lib.network_unique_id_map[id]],
            !.wifi_networks = wifi,
            !.cellular_networks = cellular,
            !.ethernet = EthernetNetwork(map),
            !.active_wifi = ActiveNetwork(wifi, map),
            !.active_cellular = ActiveNetwork(cellular, map)]

\* A variant of UpdateNetworkServiceList with a slip, used to test the
\* theorems: the networks that are no longer listed stay in the map.
UpdateNetworkServiceList_KeepsUnlisted(lib, paths) ==
    LET map == [path \in Range(paths) \cup DOMAIN lib.network_map |->
                    ReconcileNetwork(lib, path)]
        l1 == WithIndices(lib, map, paths)
    IN  [l1 EXCEPT
            !.requested = Range(paths),
            !.created = [path \in NetworkServicePaths |->
                            IF path \in DOMAIN map
                            THEN map[path].object ELSE lib.created[path]],
            !.event = [op |-> "UpdateNetworkServiceList", arg |-> paths],
            !.before = lib.network_map]

\* The manager's "service list changed" event: the listed paths keep their
\* objects or get new ones, the others are removed from the map, the lists
\* and the pointers and destroyed, and a property fetch is requested for
\* every listed path.
UpdateNetworkServiceList(lib, paths) ==
    LET map == [path \in Range(paths) |-> ReconcileNetwork(lib, path)]
        l1 == WithIndices(lib, map, paths)
    IN  [l1 EXCEPT
            !.requested = Range(paths),
            !.created = [path \in NetworkServicePaths |->
                            IF path \in DOMAIN map
                            THEN map[path].object ELSE lib.created[path]],
            !.event = [op |-> "UpdateNetworkServiceList", arg |-> paths],
            !.before = lib.network_map]

\* The properties of a tracked network arrive: the name, from which the
\* unique id is calculated, and the connection state.
NetworkServiceUpdate(lib, path, state) ==
    LET entry == lib.network_map[path]
        n1 == CalculateUniqueId(Network_SetName(entry.n, ServiceName(path)))
        n2 == SetState(n1, state, <<>>).n
        map == [lib.network_map EXCEPT ![path] = [entry EXCEPT !.n = n2]]
        l1 == WithIndices(lib, map, <<>>)
        ids == DOMAIN l1.network_unique_id_map \cup {n2.unique_id}
    IN  [l1 EXCEPT
            !.network_unique_id_map =
                [id \in ids |-> IF id = n2.unique_id THEN path
                                ELSE l1.network_unique_id_map[id]],
            !.requested = lib.requested \ {path},
            !.event = [op |-> "NetworkServiceUpdate", arg |-> <<path>>],
            !.before = [p \in {} |-> NULL]]

\* A connection to a tracked network is started.
ConnectToNetwork(lib, path) ==
    [lib EXCEPT
        !.network_map[path].n.connection_started = TRUE,
        !.event = [op |-> "ConnectToNetwork", arg |-> <<path>>],
        !.before = [p \in {} |-> NULL]]

(***************************************************************************)
(* The NetworkConfigurationUpdater: pushes the ONC policies of the policy  *)
(* provider to the network library.                                        *)
(***************************************************************************)
kDeviceOpenNetworkConfiguration == "DeviceOpenNetworkConfiguration"
kOpenNetworkConfiguration == "OpenNetworkConfiguration"
kEmptyConfiguration == "{\"NetworkConfigurations\":[],\"Certificates\":[]}"

\* Maps configuration policy name to corresponding ONC source.
NameToONCSource(name) ==
    IF name = kDeviceOpenNetworkConfiguration
    THEN "ONC_SOURCE_DEVICE_POLICY"
    ELSE IF name = kOpenNetworkConfiguration
         THEN "ONC_SOURCE_USER_POLICY"
         ELSE "ONC_SOURCE_NONE"

\* The configuration to load for a policy: its value, and the empty
\* configuration when the policy is absent.
NetworkConfigurationOf(u, name) ==
    IF u.policy[name] = NoPolicy THEN kEmptyConfiguration
    ELSE u.policy[name]

\* The call LoadOncNetworks(onc, "", source, _) of the network library.
LoadOncNetworks(u, onc, source) ==
    [u EXCEPT !.loads = Append(@, [onc |-> onc, passphrase |-> "",
                                   source |-> source])]

\* A variant of ApplyNetworkConfiguration with a slip, used to test the
\* theorems: the configuration is loaded whether or not it changed.
ApplyNetworkConfiguration_AlwaysLoads(u, name) ==
    LET config == NetworkConfigurationOf(u, name)
    IN  LoadOncNetworks([u EXCEPT !.applied[name] = config],
                        config, NameToONCSource(name))

\* One policy is applied: its configuration is loaded if it differs from
\* the one last loaded for the policy.
ApplyNetworkConfiguration(u, name) ==
    LET config == NetworkConfigurationOf(u, name)
    IN  IF u.applied[name] # config
        THEN LoadOncNetworks([u EXCEPT !.applied[name] = config],
                             config, NameToONCSource(name))
        ELSE u

\* Both policies are applied, the device policy first.
ApplyNetworkConfigurations(u) ==
    ApplyNetworkConfiguration(
        ApplyNetworkConfiguration(u, kDeviceOpenNetworkConfiguration),
        kOpenNetworkConfiguration)


(***************************************************************************)
(* Operations on the network.  Each records the call that was made and the *)
(* fields the network had when the call began.                             *)
(***************************************************************************)
\* The daemon reports a State property: the parser calls Network::SetState.
DoSetState(new_state, ips) ==
    LET r == SetState(net, new_state, ips)
    IN  /\ net' = r.n
        /\ refreshed' = r.refreshed
        /\ call' = [op |-> "SetState", arg |-> new_state]
        /\ old' = net
        /\ UNCHANGED <<cros_loaded, dcheck_is_on>>
        /\ UNCHANGED <<certVars, propVars, parseVars, dataVars>>

\* Network::set_error (network_library.h): the daemon reports an Error.
set_error(error) ==
    /\ net' = [net EXCEPT !.error = error]
    /\ refreshed' = FALSE
    /\ call' = [op |-> "set_error", arg |-> error]
    /\ old' = net
    /\ UNCHANGED <<cros_loaded, dcheck_is_on>>
    /\ UNCHANGED <<certVars, propVars, parseVars, dataVars>>

\* Network::set_connection_started (network_library.h): the library starts
\* a connection on the network.
set_connection_started(started) ==
    /\ net' = [net EXCEPT !.connection_started = started]
    /\ refreshed' = FALSE
    /\ call' = [op |-> "set_connection_started", arg |-> started]
    /\ old' = net
    /\ UNCHANGED <<cros_loaded, dcheck_is_on>>
    /\ UNCHANGED <<certVars, propVars, parseVars, dataVars>>

\* Network::set_device_path (network_library.h): the daemon reports the
\* device the service runs on.
set_device_path(path) ==
    /\ net' = [net EXCEPT !.device_path = path]
    /\ refreshed' = FALSE
    /\ call' = [op |-> "set_device_path", arg |-> path]
    /\ old' = net
    /\ UNCHANGED <<cros_loaded, dcheck_is_on>>
    /\ UNCHANGED <<certVars, propVars, parseVars, dataVars>>

NoCall == [op |-> "construct", arg |-> ""]

\* A network of any type right after its construction, in any build.
InitCert ==
    /\ \E type \in ConnectionType, t \in ClientCertType :
          /\ type # "TYPE_WIFI" => t = "CLIENT_CERT_TYPE_NONE"
          /\ net = NewNetwork(type, t)
    /\ cros_loaded \in BOOLEAN
    /\ dcheck_is_on \in BOOLEAN
    /\ call = NoCall
    /\ old = net
    /\ refreshed = FALSE
    /\ daemon = [p \in ServicePropertiesOf(net.type) |-> Unset]
    /\ crashed = FALSE
    /\ attempts = 0
    /\ runs = [k \in 1..MaxAttempts |-> 0]
    /\ held = {}
    /\ events = <<>>
    /\ old_daemon = daemon
    /\ InitProps
    /\ InitParsers
    /\ InitData

\* The same for the connection-state operations, which read neither the
\* build's DCHECK setting nor eap_client_cert_type_: one value of each.
Init ==
    /\ \E type \in ConnectionType :
          net = NewNetwork(type, "CLIENT_CERT_TYPE_NONE")
    /\ cros_loaded \in BOOLEAN
    /\ dcheck_is_on = FALSE
    /\ call = NoCall
    /\ old = net
    /\ refreshed = FALSE
    /\ daemon = [p \in ServicePropertiesOf(net.type) |-> Unset]
    /\ crashed = FALSE
    /\ attempts = 0
    /\ runs = [k \in 1..MaxAttempts |-> 0]
    /\ held = {}
    /\ events = <<>>
    /\ old_daemon = daemon
    /\ InitProps
    /\ InitParsers
    /\ InitData

Next ==
    \/ \E s \in ConnectionState, ips \in IPConfigListings : DoSetState(s, ips)
    \/ \E e \in ErrorInputs : set_error(e)
    \/ \E b \in BOOLEAN : set_connection_started(b)
    \/ \E p \in DevicePaths : set_device_path(p)

Spec == Init /\ [][Next]_vars

(***************************************************************************)
(* Connection attempts.                                                    *)
(***************************************************************************)
\* network->AttemptConnection(closure), dispatched on the network's type.
\* The closure of the k-th attempt is closure k.
AttemptConnection(match) ==
    /\ ~crashed
    /\ attempts < MaxAttempts
    /\ LET k  == attempts + 1
           c0 == [n |-> net, d |-> daemon, ev |-> <<>>, crashed |-> FALSE,
                  closure |-> k]
           c  == CASE net.type = "TYPE_WIFI" ->
                        WifiNetwork_AttemptConnection(c0, match)
                   [] net.type = "TYPE_VPN" ->
                        VirtualNetwork_AttemptConnection(c0, match)
                   [] OTHER -> Network_AttemptConnection(c0)
       IN  /\ net' = c.n
           /\ daemon' = c.d
           /\ events' = c.ev
           /\ crashed' = c.crashed
           /\ attempts' = k
           /\ runs' = [runs EXCEPT ![k] = CountEvents(c.ev, "Run")]
           /\ held' = held \cup EnrolledClosures(c.ev)
           /\ call' = [op |-> "AttemptConnection", arg |-> match]
           /\ old' = net
           /\ old_daemon' = daemon
           /\ refreshed' = FALSE
           /\ UNCHANGED <<cros_loaded, dcheck_is_on, propVars, parseVars, dataVars>>

\* The enrollment handler runs a closure it holds (enrollment completed)
\* and lets go of it.
EnrollmentCompletes(k) ==
    /\ ~crashed
    /\ k \in held
    /\ held' = held \ {k}
    /\ runs' = [runs EXCEPT ![k] = @ + 1]
    /\ events' = <<>>
    /\ call' = [op |-> "EnrollmentCompletes", arg |-> ""]
    /\ old' = net
    /\ refreshed' = FALSE
    /\ old_daemon' = daemon
    /\ UNCHANGED <<net, daemon, crashed, attempts, cros_loaded, dcheck_is_on,
                   propVars, parseVars, dataVars>>

\* The user cancels the enrollment: the handler drops the closure.
EnrollmentCancelled(k) ==
    /\ ~crashed
    /\ k \in held
    /\ held' = held \ {k}
    /\ events' = <<>>
    /\ call' = [op |-> "EnrollmentCancelled", arg |-> ""]
    /\ old' = net
    /\ refreshed' = FALSE
    /\ old_daemon' = daemon
    /\ UNCHANGED <<net, daemon, runs, crashed, attempts, cros_loaded,
                   dcheck_is_on, propVars, parseVars, dataVars>>

\* A setter of network_library.h assigns one field of the network.
SetField(op, field, value) ==
    /\ ~crashed
    /\ net[field] # value
    /\ net' = [net EXCEPT ![field] = value]
    /\ events' = <<>>
    /\ call' = [op |-> op, arg |-> ""]
    /\ old' = net
    /\ refreshed' = FALSE
    /\ old_daemon' = daemon
    /\ UNCHANGED <<daemon, runs, held, crashed, attempts, cros_loaded,
                   dcheck_is_on, propVars, parseVars, dataVars>>

\* Network::set_client_cert_pattern (the ONC configuration of the network).
set_client_cert_pattern(pattern) ==
    SetField("set_client_cert_pattern", "client_cert_pattern", pattern)

\* Network::SetEnrollmentHandler.
SetEnrollmentHandler(present) ==
    SetField("SetEnrollmentHandler", "enrollment_handler", present)

\* WifiNetwork::set_eap_client_cert_type.
set_eap_client_cert_type(t) ==
    /\ net.type = "TYPE_WIFI"
    /\ SetField("set_eap_client_cert_type", "eap_client_cert_type", t)

\* VirtualNetwork::set_client_cert_type / WifiNetwork::set_eap_client_cert_type.
set_client_cert_type(t) ==
    \/ /\ net.type = "TYPE_VPN"
       /\ SetField("set_client_cert_type", "client_cert_type", t)
    \/ set_eap_client_cert_type(t)

\* VirtualNetwork::set_provider_type.
set_provider_type(t) ==
    /\ net.type = "TYPE_VPN"
    /\ SetField("set_provider_type", "provider_type", t)

NextCert ==
    \/ \E match \in Pkcs11Ids \cup {NoCert} : AttemptConnection(match)
    \/ \E k \in 1..MaxAttempts : EnrollmentCompletes(k)
    \/ \E k \in 1..MaxAttempts : EnrollmentCancelled(k)
    \/ \E p \in Patterns : set_client_cert_pattern(p)
    \/ \E b \in BOOLEAN : SetEnrollmentHandler(b)
    \/ \E t \in ClientCertType : set_client_cert_type(t)
    \/ \E t \in ProviderType : set_provider_type(t)

SpecCert == InitCert /\ [][NextCert]_vars

(***************************************************************************)
(* Operations on the property maps.                                        *)
(***************************************************************************)
notPropVars ==
    <<net, cros_loaded, refreshed, dcheck_is_on, old, certVars, parseVars,
      dataVars>>

\* A caller (the parser, on a message of the daemon) creates a value.
CallerCreatesValue(v, a) ==
    /\ heap[a] = Free
    /\ heap' = [heap EXCEPT ![a] = v]
    /\ caller_values' = caller_values \cup {a}
    /\ call' = [op |-> "CreateValue", arg |-> <<a>>]
    /\ old_property_map' = property_map
    /\ old_heap' = heap
    /\ UNCHANGED <<property_map, last_update>>
    /\ UNCHANGED notPropVars

\* A caller deletes a value it owns.
CallerDeletesValue(a) ==
    /\ a \in caller_values
    /\ heap' = Delete(heap, a)
    /\ caller_values' = caller_values \ {a}
    /\ call' = [op |-> "DeleteValue", arg |-> <<a>>]
    /\ old_property_map' = property_map
    /\ old_heap' = heap
    /\ UNCHANGED <<property_map, last_update>>
    /\ UNCHANGED notPropVars

\* network i ->UpdatePropertyMap(index, value), value a caller's value or
\* NULL; a is the address the deep copy is allocated at.
DoUpdatePropertyMap(i, index, value, a) ==
    /\ value \in caller_values \cup {NullValue}
    /\ value # NullValue => HeapAfterDelete(property_map[i], heap, index)[a] = Free
    /\ value = NullValue => a = 1
    /\ LET r == UpdatePropertyMap(property_map[i], heap, index, value, a)
       IN  /\ property_map' = [property_map EXCEPT ![i] = r.pm]
           /\ heap' = r.h
    /\ last_update' = [last_update EXCEPT ![i][index] =
                           IF value = NullValue THEN NoValue ELSE heap[value]]
    /\ call' = [op |-> "UpdatePropertyMap", arg |-> <<i, index, value>>]
    /\ old_property_map' = property_map
    /\ old_heap' = heap
    /\ UNCHANGED caller_values
    /\ UNCHANGED notPropVars

\* Network i is destroyed, and a new Network takes its place.
DestroyNetwork(i) ==
    /\ DOMAIN property_map[i] # {}
    /\ heap' = DeleteAll(heap, {property_map[i][x] : x \in DOMAIN property_map[i]})
    /\ property_map' = [property_map EXCEPT ![i] = <<>>]
    /\ last_update' = [last_update EXCEPT ![i] = [x \in PropertyIndices |-> NoValue]]
    /\ call' = [op |-> "~Network", arg |-> <<i>>]
    /\ old_property_map' = property_map
    /\ old_heap' = heap
    /\ UNCHANGED caller_values
    /\ UNCHANGED notPropVars

NextProps ==
    \/ \E v \in Values, a \in Addrs : CallerCreatesValue(v, a)
    \/ \E a \in Addrs : CallerDeletesValue(a)
    \/ \E i \in NetIds, x \in PropertyIndices, v \in Addrs \cup {NullValue},
          a \in Addrs : DoUpdatePropertyMap(i, x, v, a)
    \/ \E i \in NetIds : DestroyNetwork(i)

\* The property map operations read neither the type of the network nor
\* whether libcros is loaded: one value of each.
InitPropertyMaps ==
    /\ Init
    /\ net.type = "TYPE_ETHERNET"
    /\ cros_loaded

SpecProps == InitPropertyMaps /\ [][NextProps]_vars

(***************************************************************************)
(* Status updates.                                                         *)
(***************************************************************************)
notParseVars ==
    <<cros_loaded, refreshed, dcheck_is_on, certVars, propVars, dataVars>>

\* network->UpdateStatus(key, value, &index) on a message of the daemon.
DoNetworkUpdateStatus(key, value) ==
    LET r == Network_UpdateStatus(net, network_parser, key, value)
    IN  /\ net' = r.entity
        /\ status_result' = r.result
        /\ parser_return' = r.parser
        /\ call' = [op |-> "Network::UpdateStatus", arg |-> <<key, value>>]
        /\ old' = net
        /\ old_device' = device
        /\ UNCHANGED <<device, network_parser, device_parser>>
        /\ UNCHANGED notParseVars

\* device->UpdateStatus(key, value, &index) on a message of the daemon.
DoNetworkDeviceUpdateStatus(key, value) ==
    LET r == NetworkDevice_UpdateStatus(device, device_parser, key, value)
    IN  /\ device' = r.entity
        /\ status_result' = r.result
        /\ parser_return' = r.parser
        /\ call' = [op |-> "NetworkDevice::UpdateStatus", arg |-> <<key, value>>]
        /\ old' = net
        /\ old_device' = device
        /\ UNCHANGED <<net, network_parser, device_parser>>
        /\ UNCHANGED notParseVars

\* Network::SetNetworkParser.
SetNetworkParser(parser) ==
    /\ network_parser # parser
    /\ network_parser' = parser
    /\ call' = [op |-> "SetNetworkParser", arg |-> <<>>]
    /\ old' = net
    /\ old_device' = device
    /\ UNCHANGED <<net, device, device_parser, status_result, parser_return>>
    /\ UNCHANGED notParseVars

\* NetworkDevice::SetNetworkDeviceParser.
SetNetworkDeviceParser(parser) ==
    /\ device_parser # parser
    /\ device_parser' = parser
    /\ call' = [op |-> "SetNetworkDeviceParser", arg |-> <<>>]
    /\ old' = net
    /\ old_device' = device
    /\ UNCHANGED <<net, device, network_parser, status_result, parser_return>>
    /\ UNCHANGED notParseVars

NextStatus ==
    \/ \E m \in StatusMessages : DoNetworkUpdateStatus(m[1], m[2])
    \/ \E m \in StatusMessages : DoNetworkDeviceUpdateStatus(m[1], m[2])
    \/ \E parser \in NetworkParsers : SetNetworkParser(parser)
    \/ \E parser \in NetworkDeviceParsers : SetNetworkDeviceParser(parser)

\* The status updates read neither the type of the network nor whether
\* libcros is loaded: one value of each.
SpecStatus == InitPropertyMaps /\ [][NextStatus]_vars

\* Only SetState is ever called on the freshly constructed network.
NextSetState ==
    \E s \in ConnectionState, ips \in IPConfigListings : DoSetState(s, ips)

SpecSetState == Init /\ [][NextSetState]_vars

(***************************************************************************)
(* Unique ids of two networks.                                             *)
(***************************************************************************)
\* The Network objects of the comparison, by name.
Object(which) == IF which = "net" THEN net ELSE other

\* which->CalculateUniqueId().
DoCalculateUniqueId(which) ==
    /\ net' = IF which = "net" THEN CalculateUniqueId(net) ELSE net
    /\ other' = IF which = "other" THEN CalculateUniqueId(other) ELSE other
    /\ call' = [op |-> "CalculateUniqueId", arg |-> which]
    /\ old' = Object(which)
    /\ refreshed' = FALSE
    /\ wiped' = <<>>
    /\ returned' = NoReturn
    /\ UNCHANGED <<cros_loaded, dcheck_is_on, plans, now, ipconfig, libVars>>
    /\ UNCHANGED <<certVars, propVars, parseVars>>

\* Networks whose identity fields the parser has filled in: of any type,
\* with any service path, name, security class, provider type and server
\* hostname of the input sets.
IdentifiedNetworks ==
    UNION {
        {[NewNetwork(type, "CLIENT_CERT_TYPE_NONE") EXCEPT
              !.service_path = path, !.name = name] :
          path \in ServicePaths, name \in Names}
        : type \in {"TYPE_ETHERNET", "TYPE_CELLULAR"}}
    \cup
    {[NewNetwork("TYPE_WIFI", "CLIENT_CERT_TYPE_NONE") EXCEPT
          !.service_path = path, !.name = name, !.encryption = e] :
      path \in ServicePaths, name \in Names, e \in ConnectionSecurity}
    \cup
    {[NewNetwork("TYPE_VPN", "CLIENT_CERT_TYPE_NONE") EXCEPT
          !.service_path = path, !.name = name, !.provider_type = t,
          !.server_hostname = h] :
      path \in ServicePaths, name \in Names, t \in ProviderType,
      h \in Hostnames}

InitUniqueId ==
    /\ net \in IdentifiedNetworks
    /\ other \in IdentifiedNetworks
    /\ cros_loaded = TRUE
    /\ dcheck_is_on = FALSE
    /\ call = NoCall
    /\ old = net
    /\ refreshed = FALSE
    /\ daemon = [p \in ServicePropertiesOf(net.type) |-> Unset]
    /\ crashed = FALSE
    /\ attempts = 0
    /\ runs = [k \in 1..MaxAttempts |-> 0]
    /\ held = {}
    /\ events = <<>>
    /\ old_daemon = daemon
    /\ InitProps
    /\ InitParsers
    /\ wiped = <<>>
    /\ plans = <<>>
    /\ now = 0
    /\ ipconfig = NoObject
    /\ InitLib
    /\ returned = NoReturn

NextUniqueId == \E which \in {"net", "other"} : DoCalculateUniqueId(which)

SpecUniqueId == InitUniqueId /\ [][NextUniqueId]_vars


(***************************************************************************)
(* Names, unique ids and credentials of one network.                       *)
(***************************************************************************)
\* A call that assigns fields of the network and returns a value.
FieldCall(op, arg, n, value) ==
    /\ net' = n
    /\ returned' = value
    /\ call' = [op |-> op, arg |-> arg]
    /\ old' = net
    /\ refreshed' = FALSE
    /\ wiped' = <<>>
    /\ UNCHANGED <<cros_loaded, dcheck_is_on, certVars, propVars, parseVars>>
    /\ UNCHANGED <<other, plans, now, ipconfig, libVars>>

\* network->SetName(name): the daemon reports a Name property.
DoSetName(name) ==
    FieldCall("SetName", name, Network_SetName(net, name), NoReturn)

\* wifi->SetSsid(ssid): the daemon reports an SSID.
DoSetSsid(ssid) ==
    /\ net.type = "TYPE_WIFI"
    /\ LET r == WifiNetwork_SetSsid(net, ssid)
       IN  FieldCall("SetSsid", ssid, r.n, <<r.returned>>)

\* wifi->SetHexSsid(ssid_hex): the daemon reports a hex dump of the SSID.
DoSetHexSsid(ssid_hex) ==
    /\ net.type = "TYPE_WIFI"
    /\ LET r == WifiNetwork_SetHexSsid(net, ssid_hex)
       IN  FieldCall("SetHexSsid", ssid_hex, r.n, <<r.returned>>)

\* WifiNetwork::set_encryption (network_library.h): the daemon reports the
\* security class.
set_encryption(encryption) ==
    /\ net.type = "TYPE_WIFI"
    /\ net.encryption # encryption
    /\ FieldCall("set_encryption", encryption,
                 [net EXCEPT !.encryption = encryption], NoReturn)

\* The call in progress when a setter of the network begins.
BeginCall ==
    [n |-> net, d |-> daemon, ev |-> <<>>, crashed |-> FALSE, closure |-> 0]

\* A credential setter has run; c is the call it made and arg the string
\* it was called with, where that is kept on record.
CredentialCallWith(op, arg, c) ==
    /\ net' = c.n
    /\ daemon' = c.d
    /\ events' = c.ev
    /\ call' = [op |-> op, arg |-> arg]
    /\ old' = net
    /\ old_daemon' = daemon
    /\ refreshed' = FALSE
    /\ returned' = NoReturn
    /\ wiped' = <<>>
    /\ UNCHANGED <<crashed, attempts, runs, held, cros_loaded, dcheck_is_on>>
    /\ UNCHANGED <<propVars, parseVars, other, plans, now, ipconfig, libVars>>

CredentialCall(op, c) == CredentialCallWith(op, "", c)

\* The credential setters of WifiNetwork.
DoSetPassphrase(passphrase) ==
    /\ net.type = "TYPE_WIFI"
    /\ CredentialCallWith("SetPassphrase", passphrase,
                          WifiNetwork_SetPassphrase(BeginCall, passphrase))

DoSetEAPClientCertPkcs11Id(pkcs11_id) ==
    /\ net.type = "TYPE_WIFI"
    /\ CredentialCallWith("SetEAPClientCertPkcs11Id", pkcs11_id,
                          SetEAPClientCertPkcs11Id(BeginCall, pkcs11_id))

DoSetEAPIdentity(identity) ==
    /\ net.type = "TYPE_WIFI"
    /\ CredentialCall("SetEAPIdentity",
                      WifiNetwork_SetEAPIdentity(BeginCall, identity))

DoSetEAPAnonymousIdentity(identity) ==
    /\ net.type = "TYPE_WIFI"
    /\ CredentialCall("SetEAPAnonymousIdentity",
                      WifiNetwork_SetEAPAnonymousIdentity(BeginCall, identity))

DoSetEAPPassphrase(passphrase) ==
    /\ net.type = "TYPE_WIFI"
    /\ CredentialCall("SetEAPPassphrase",
                      WifiNetwork_SetEAPPassphrase(BeginCall, passphrase))

\* The credential setters of VirtualNetwork.
DoSetCACertNSS(ca_cert_nss) ==
    /\ net.type = "TYPE_VPN"
    /\ CredentialCall("SetCACertNSS",
                      VirtualNetwork_SetCACertNSS(BeginCall, ca_cert_nss))

DoSetL2TPIPsecPSKCredentials(psk_passphrase, username, user_passphrase, group_name) ==
    /\ net.type = "TYPE_VPN"
    /\ CredentialCall("SetL2TPIPsecPSKCredentials",
                      VirtualNetwork_SetL2TPIPsecPSKCredentials(
                          BeginCall, psk_passphrase, username,
                          user_passphrase, group_name))

DoSetL2TPIPsecCertCredentials(client_cert_id, username, user_passphrase, group_name) ==
    /\ net.type = "TYPE_VPN"
    /\ CredentialCall("SetL2TPIPsecCertCredentials",
                      VirtualNetwork_SetL2TPIPsecCertCredentials(
                          BeginCall, client_cert_id, username,
                          user_passphrase, group_name))

DoSetOpenVPNCredentials(client_cert_id, username, user_passphrase, otp) ==
    /\ net.type = "TYPE_VPN"
    /\ CredentialCall("SetOpenVPNCredentials",
                      VirtualNetwork_SetOpenVPNCredentials(
                          BeginCall, client_cert_id, username,
                          user_passphrase, otp))

\* network->EraseCredentials().
DoEraseCredentials ==
    LET r == EraseCredentials(net)
    IN  /\ net' = r.n
        /\ wiped' = r.wiped
        /\ call' = [op |-> "EraseCredentials", arg |-> ""]
        /\ old' = net
        /\ refreshed' = FALSE
        /\ returned' = NoReturn
        /\ UNCHANGED <<cros_loaded, dcheck_is_on, certVars, propVars,
                       parseVars>>
        /\ UNCHANGED <<other, plans, now, ipconfig, libVars>>

\* wifi->GetPassphrase().
DoGetPassphrase ==
    /\ net.type = "TYPE_WIFI"
    /\ FieldCall("GetPassphrase", "", net, <<WifiNetwork_GetPassphrase(net)>>)

\* The calls that set credentials and erase them.
NextCredentials ==
    \/ \E s \in Secrets : DoSetPassphrase(s)
    \/ \E s \in Secrets : DoSetEAPClientCertPkcs11Id(s)
    \/ \E s \in Secrets : DoSetEAPIdentity(s)
    \/ \E s \in Secrets : DoSetEAPAnonymousIdentity(s)
    \/ \E s \in Secrets : DoSetEAPPassphrase(s)
    \/ \E s \in Secrets : DoSetCACertNSS(s)
    \/ \E a \in VpnCredentialInputs :
          DoSetL2TPIPsecPSKCredentials(a[1], a[2], a[3], a[4])
    \/ \E a \in VpnCredentialInputs :
          DoSetL2TPIPsecCertCredentials(a[1], a[2], a[3], a[4])
    \/ \E a \in VpnCredentialInputs :
          DoSetOpenVPNCredentials(a[1], a[2], a[3], a[4])
    \/ DoEraseCredentials
    \/ DoGetPassphrase

\* The setters assign the fields of the network whether or not libcros is
\* loaded; the names and credentials are followed on a network whose
\* daemon is out of reach.
InitFields ==
    /\ Init
    /\ ~cros_loaded

SpecCredentials == InitFields /\ [][NextCredentials]_vars

\* The calls that set the name and the unique id of the network, next to
\* the others that are made on it.
NextIdentity ==
    \/ \E name \in SsidInputs : DoSetName(name)
    \/ \E ssid \in SsidInputs : DoSetSsid(ssid)
    \/ \E ssid_hex \in HexSsidInputs : DoSetHexSsid(ssid_hex)
    \/ \E e \in SecurityInputs : set_encryption(e)
    \/ DoCalculateUniqueId("net")
    \/ \E s \in StateInputs : DoSetState(s, <<>>)
    \/ NextCredentials

SpecIdentity == InitFields /\ [][NextIdentity]_vars


(***************************************************************************)
(* Prefix lengths of netmasks.                                             *)
(***************************************************************************)
\* ipconfig.GetPrefixLength().
DoGetPrefixLength ==
    /\ returned' = <<GetPrefixLength(ipconfig)>>
    /\ call' = [op |-> "GetPrefixLength", arg |-> ""]
    /\ UNCHANGED <<net, cros_loaded, dcheck_is_on, old, refreshed>>
    /\ UNCHANGED <<other, wiped, plans, now, ipconfig, libVars>>
    /\ UNCHANGED <<certVars, propVars, parseVars>>

\* An IP configuration with any netmask of the input set has been
\* constructed.
InitNetmask ==
    /\ net = NewNetwork("TYPE_ETHERNET", "CLIENT_CERT_TYPE_NONE")
    /\ cros_loaded = TRUE
    /\ dcheck_is_on = FALSE
    /\ call = NoCall
    /\ old = net
    /\ refreshed = FALSE
    /\ daemon = [p \in ServicePropertiesOf(net.type) |-> Unset]
    /\ crashed = FALSE
    /\ attempts = 0
    /\ runs = [k \in 1..MaxAttempts |-> 0]
    /\ held = {}
    /\ events = <<>>
    /\ old_daemon = daemon
    /\ InitProps
    /\ InitParsers
    /\ other = NoObject
    /\ wiped = <<>>
    /\ plans = <<>>
    /\ now = 0
    /\ \E netmask \in NetmaskInputs : ipconfig = NewNetworkIPConfig(netmask)
    /\ InitLib
    /\ returned = NoReturn

NextNetmask == DoGetPrefixLength

SpecNetmask == InitNetmask /\ [][NextNetmask]_vars


(***************************************************************************)
(* Cellular data plans.                                                    *)
(***************************************************************************)
\* The state of the network and of the IP configuration while the plans
\* are looked at.
InitNoNetwork ==
    /\ net = NewNetwork("TYPE_CELLULAR", "CLIENT_CERT_TYPE_NONE")
    /\ cros_loaded = TRUE
    /\ dcheck_is_on = FALSE
    /\ call = NoCall
    /\ old = net
    /\ refreshed = FALSE
    /\ daemon = [p \in ServicePropertiesOf(net.type) |-> Unset]
    /\ crashed = FALSE
    /\ attempts = 0
    /\ runs = [k \in 1..MaxAttempts |-> 0]
    /\ held = {}
    /\ events = <<>>
    /\ old_daemon = daemon
    /\ InitProps
    /\ InitParsers
    /\ other = NoObject
    /\ wiped = <<>>
    /\ ipconfig = NoObject
    /\ InitLib
    /\ returned = NoReturn

\* A call on a plan, or the clock's tick, leaves the rest alone.
PlanFrame ==
    /\ UNCHANGED <<net, cros_loaded, dcheck_is_on, old, refreshed>>
    /\ UNCHANGED <<other, wiped, plans, ipconfig, libVars>>
    /\ UNCHANGED <<certVars, propVars, parseVars>>

\* plans[i].remaining_data().
DoRemainingData(i) ==
    /\ i \in DOMAIN plans
    /\ returned' = <<remaining_data(plans[i])>>
    /\ call' = [op |-> "remaining_data", arg |-> i]
    /\ UNCHANGED now
    /\ PlanFrame

\* plans[i].remaining_time().
DoRemainingTime(i) ==
    /\ i \in DOMAIN plans
    /\ returned' = <<remaining_time(plans[i], now)>>
    /\ call' = [op |-> "remaining_time", arg |-> i]
    /\ UNCHANGED now
    /\ PlanFrame

\* Time passes.
Tick ==
    /\ now < MaxNow
    /\ now' = now + 1
    /\ returned' = NoReturn
    /\ call' = [op |-> "Tick", arg |-> 0]
    /\ PlanFrame

\* One plan, made from any of the plan infos of the input set.
InitPlan ==
    /\ InitNoNetwork
    /\ \E info \in UsageInputs : plans = <<CellularDataPlan(info)>>
    /\ now = 0

NextPlan ==
    \/ \E i \in PlanIds : DoRemainingData(i)
    \/ \E i \in PlanIds : DoRemainingTime(i)
    \/ Tick

SpecPlan == InitPlan /\ [][NextPlan]_vars

\* plans[i].GetUniqueIdentifier(); the identifiers the plans have returned
\* are kept side by side.
DoGetUniqueIdentifier(i) ==
    /\ i \in DOMAIN plans
    /\ returned' = (i :> GetUniqueIdentifier(plans[i])) @@ returned
    /\ call' = [op |-> "GetUniqueIdentifier", arg |-> i]
    /\ UNCHANGED now
    /\ PlanFrame

\* Two plans, each made from any of the plan infos of the input set.
InitPlanIdentifiers ==
    /\ InitNoNetwork
    /\ \E info1, info2 \in PlanInputs :
          plans = <<CellularDataPlan(info1), CellularDataPlan(info2)>>
    /\ now = 0

NextPlanIdentifiers == \E i \in PlanIds : DoGetUniqueIdentifier(i)

SpecPlanIdentifiers == InitPlanIdentifiers /\ [][NextPlanIdentifiers]_vars


(***************************************************************************)
(* Questions asked of a configured network.                                *)
(***************************************************************************)
\* A const method of the network has returned a value.
Query(op, value) ==
    /\ returned' = <<value>>
    /\ call' = [op |-> op, arg |-> ""]
    /\ UNCHANGED <<net, cros_loaded, dcheck_is_on, old, refreshed>>
    /\ UNCHANGED <<other, wiped, plans, now, ipconfig, libVars>>
    /\ UNCHANGED <<certVars, propVars, parseVars>>

\* vpn->NeedMoreInfoToConnect().
DoNeedMoreInfoToConnect ==
    /\ net.type = "TYPE_VPN"
    /\ Query("NeedMoreInfoToConnect", VirtualNetwork_NeedMoreInfoToConnect(net))

\* network->RequiresUserProfile().
DoRequiresUserProfile ==
    Query("RequiresUserProfile", RequiresUserProfile(net))

\* Networks the parser and the user have configured: a VPN with any
\* provider type, error and credentials, a Wifi network with any security
\* class, EAP method and client certificate, and networks of the other
\* types.
ConfiguredNetworks ==
    {[NewNetwork("TYPE_VPN", "CLIENT_CERT_TYPE_NONE") EXCEPT
          !.provider_type = t, !.error = e, !.server_hostname = h,
          !.username = u, !.user_passphrase = up,
          !.user_passphrase_required = upr, !.psk_passphrase = psk,
          !.psk_passphrase_required = pskr, !.client_cert_id = id] :
      t \in ProviderType, e \in {"ERROR_NO_ERROR", "ERROR_CONNECT_FAILED"},
      h \in {"", "vpn.a"}, u \in {"", "user"}, up \in Secrets,
      upr \in BOOLEAN, psk \in Secrets, pskr \in BOOLEAN,
      id \in {"", "id1"}}
    \cup
    {[NewNetwork("TYPE_WIFI", ct) EXCEPT
          !.encryption = e, !.eap_method = m,
          !.eap_client_cert_pkcs11_id = id] :
      ct \in ClientCertType, e \in ConnectionSecurity, m \in EAPMethod,
      id \in {"", "id1"}}
    \cup
    {NewNetwork(type, "CLIENT_CERT_TYPE_NONE") :
      type \in {"TYPE_ETHERNET", "TYPE_CELLULAR"}}

InitQueries ==
    /\ net \in ConfiguredNetworks
    /\ cros_loaded = TRUE
    /\ dcheck_is_on = FALSE
    /\ call = NoCall
    /\ old = net
    /\ refreshed = FALSE
    /\ daemon = [p \in ServicePropertiesOf(net.type) |-> Unset]
    /\ crashed = FALSE
    /\ attempts = 0
    /\ runs = [k \in 1..MaxAttempts |-> 0]
    /\ held = {}
    /\ events = <<>>
    /\ old_daemon = daemon
    /\ InitProps
    /\ InitParsers
    /\ InitData

NextQueries ==
    \/ DoNeedMoreInfoToConnect
    \/ DoRequiresUserProfile

SpecQueries == InitQueries /\ [][NextQueries]_vars


(***************************************************************************)
(* State changes with the IP-config listing on record.                     *)
(***************************************************************************)
\* The daemon reports a State property while the device lists ips:
\* Network::SetState, with the listing kept for reference.
DoSetStateListing(new_state, ips) ==
    LET r == SetState(net, new_state, ips)
    IN  /\ net' = r.n
        /\ refreshed' = r.refreshed
        /\ call' = [op |-> "SetState", arg |-> new_state]
        /\ old' = net
        /\ returned' = ips
        /\ UNCHANGED <<cros_loaded, dcheck_is_on>>
        /\ UNCHANGED <<other, wiped, plans, now, ipconfig, libVars>>
        /\ UNCHANGED <<certVars, propVars, parseVars>>

NextIPAddress ==
    \/ \E s \in ConnectionState, ips \in IPConfigListings :
          DoSetStateListing(s, ips)
    \/ \E p \in DevicePaths : set_device_path(p)

\* SetState and InitIPAddress are members of the base class and read none of
\* the fields of the subclasses: one network type stands for all.
InitEthernet == Init /\ net.type = "TYPE_ETHERNET"

SpecIPAddress == InitEthernet /\ [][NextIPAddress]_vars


(***************************************************************************)
(* The two passphrases of a Wifi network.                                  *)
(***************************************************************************)
\* WifiNetwork::set_passphrase (network_library.h): a service update of the
\* daemon reports the passphrase it remembers.
set_passphrase(passphrase) ==
    /\ net.type = "TYPE_WIFI"
    /\ net.passphrase # passphrase
    /\ FieldCall("set_passphrase", passphrase,
                 [net EXCEPT !.passphrase = passphrase], NoReturn)

InitWifi == Init /\ net.type = "TYPE_WIFI"

NextPassphrase ==
    \/ \E s \in RememberedPassphrases : set_passphrase(s)
    \/ \E s \in Secrets : DoSetPassphrase(s)
    \/ DoGetPassphrase

SpecPassphrase == InitWifi /\ [][NextPassphrase]_vars


(***************************************************************************)
(* The client certificate id of a Wifi network.                            *)
(***************************************************************************)
\* A Wifi network right after its construction, in any build.
InitCertWifi == InitCert /\ net.type = "TYPE_WIFI"

\* The calls that reach SetEAPClientCertPkcs11Id: the setter itself and the
\* connection attempts that match a certificate pattern.
NextCertId ==
    \/ \E id \in Pkcs11Ids : ~crashed /\ DoSetEAPClientCertPkcs11Id(id)
    \/ \E match \in Pkcs11Ids \cup {NoCert} : AttemptConnection(match)
    \/ \E p \in Patterns : set_client_cert_pattern(p)
    \/ \E t \in ClientCertType : set_eap_client_cert_type(t)

SpecCertId == InitCertWifi /\ [][NextCertId]_vars


(***************************************************************************)
(* The EAP method and the phase-2 authentication of a Wifi network.        *)
(***************************************************************************)
\* wifi->SetEAPMethod(method).
DoSetEAPMethod(method) ==
    /\ net.type = "TYPE_WIFI"
    /\ CredentialCallWith("SetEAPMethod", method,
                          WifiNetwork_SetEAPMethod(BeginCall, method))

\* wifi->SetEAPPhase2Auth(auth).
DoSetEAPPhase2Auth(auth) ==
    /\ net.type = "TYPE_WIFI"
    /\ CredentialCallWith("SetEAPPhase2Auth", auth,
                          WifiNetwork_SetEAPPhase2Auth(BeginCall, auth))

NextEap ==
    \/ \E method \in EAPMethod : DoSetEAPMethod(method)
    \/ \E auth \in EAPPhase2Auth : DoSetEAPPhase2Auth(auth)

SpecEap == InitWifi /\ [][NextEap]_vars


(***************************************************************************)
(* Credentials of a remembered VPN.                                        *)
(***************************************************************************)
\* vpn->CopyCredentialsFromRemembered(remembered), the remembered network
\* being the second object; the object as it was before the call is kept
\* for reference.
DoCopyCredentialsFromRemembered ==
    /\ net.type = "TYPE_VPN"
    /\ other.type = "TYPE_VPN"
    /\ LET r == VirtualNetwork_CopyCredentialsFromRemembered(net, other)
       IN  /\ net' = r.n
           /\ other' = r.remembered
           /\ returned' = <<other>>
    /\ call' = [op |-> "CopyCredentialsFromRemembered", arg |-> ""]
    /\ old' = net
    /\ refreshed' = FALSE
    /\ wiped' = <<>>
    /\ UNCHANGED <<cros_loaded, dcheck_is_on, plans, now, ipconfig, libVars>>
    /\ UNCHANGED <<certVars, propVars, parseVars>>

\* A VPN whose five credentials are each empty or the given string.
VpnsWithCredentials(value) ==
    {[NewNetwork("TYPE_VPN", "CLIENT_CERT_TYPE_NONE") EXCEPT
          !.ca_cert_nss = ca, !.psk_passphrase = psk, !.client_cert_id = id,
          !.username = u, !.user_passphrase = up] :
      ca \in {"", value}, psk \in {"", value}, id \in {"", value},
      u \in {"", value}, up \in {"", value}}

InitCopy ==
    /\ net \in VpnsWithCredentials("mine")
    /\ other \in VpnsWithCredentials("saved")
    /\ cros_loaded = TRUE
    /\ dcheck_is_on = FALSE
    /\ call = NoCall
    /\ old = net
    /\ refreshed = FALSE
    /\ daemon = [p \in ServicePropertiesOf(net.type) |-> Unset]
    /\ crashed = FALSE
    /\ attempts = 0
    /\ runs = [k \in 1..MaxAttempts |-> 0]
    /\ held = {}
    /\ events = <<>>
    /\ old_daemon = daemon
    /\ InitProps
    /\ InitParsers
    /\ wiped = <<>>
    /\ plans = <<>>
    /\ now = 0
    /\ ipconfig = NoObject
    /\ InitLib
    /\ returned = NoReturn

NextCopy == DoCopyCredentialsFromRemembered

SpecCopy == InitCopy /\ [][NextCopy]_vars


(***************************************************************************)
(* Activation of a cellular network.                                       *)
(***************************************************************************)
\* cellular->StartActivation(), the daemon accepting the request or not.
DoStartActivation(activated) ==
    /\ net.type = "TYPE_CELLULAR"
    /\ LET r == CellularNetwork_StartActivation(net, activated)
       IN  FieldCall("StartActivation", activated, r.n, <<r.returned>>)

\* CellularNetwork::set_activation_state (network_library.h): the daemon
\* reports the activation state.
set_activation_state(activation_state) ==
    /\ net.type = "TYPE_CELLULAR"
    /\ net.activation_state # activation_state
    /\ FieldCall("set_activation_state", activation_state,
                 [net EXCEPT !.activation_state = activation_state], NoReturn)

InitCellular == Init /\ net.type = "TYPE_CELLULAR"

NextActivation ==
    \/ \E activated \in BOOLEAN : DoStartActivation(activated)
    \/ \E s \in ActivationState : set_activation_state(s)
    \/ \E s \in StateInputs \cup {"STATE_IDLE"} : DoSetState(s, <<>>)

SpecActivation == InitCellular /\ [][NextActivation]_vars


(***************************************************************************)
(* The events of the NetworkLibrary.                                       *)
(***************************************************************************)
LibraryFrame ==
    UNCHANGED <<stateVars, cros_loaded, dcheck_is_on, certVars, propVars,
                parseVars, other, wiped, plans, now,
                ipconfig, returned, updater>>

\* The service lists the manager reports: up to MaxServices paths, none
\* twice.
ServiceLists ==
    {paths \in UNION {[1..k -> NetworkServicePaths] : k \in 0..MaxServices} :
        \A i, j \in 1..Len(paths) : i # j => paths[i] # paths[j]}

DoUpdateNetworkServiceList(paths) ==
    /\ \A i \in 1..Len(paths) :
           paths[i] \notin DOMAIN library.network_map
               => library.created[paths[i]] < MaxCreations
    /\ library' = UpdateNetworkServiceList(library, paths)
    /\ LibraryFrame

LibraryStateInputs == {"STATE_IDLE", "STATE_ASSOCIATION", "STATE_READY"}

DoNetworkServiceUpdate(path, state) ==
    /\ path \in library.requested
    /\ library' = NetworkServiceUpdate(library, path, state)
    /\ LibraryFrame

DoConnectToNetwork(path) ==
    /\ path \in DOMAIN library.network_map
    /\ ~library.network_map[path].n.connection_started
    /\ library' = ConnectToNetwork(library, path)
    /\ LibraryFrame

NextLibrary ==
    \/ \E paths \in ServiceLists : DoUpdateNetworkServiceList(paths)
    \/ \E path \in NetworkServicePaths, state \in LibraryStateInputs :
          DoNetworkServiceUpdate(path, state)
    \/ \E path \in NetworkServicePaths : DoConnectToNetwork(path)

\* The library starts with no network; libcros is loaded.
InitLibrary == InitEthernet /\ cros_loaded = TRUE

SpecLibrary == InitLibrary /\ [][NextLibrary]_vars

(***************************************************************************)
(* The steps of the policy provider and of the updater.                    *)
(***************************************************************************)
UpdaterFrame ==
    UNCHANGED <<stateVars, cros_loaded, dcheck_is_on, certVars, propVars,
                parseVars, other, wiped, plans, now,
                ipconfig, returned, library>>

\* policy_.Set(name, ..., value)
PolicySet(name, value) ==
    /\ updater' = [updater EXCEPT !.policy[name] = value, !.loads = <<>>,
                                  !.event = "Set",
                                  !.before = updater.applied]
    /\ UpdaterFrame

\* policy_.Erase(name)
PolicyErase(name) ==
    /\ updater' = [updater EXCEPT !.policy[name] = NoPolicy, !.loads = <<>>,
                                  !.event = "Erase",
                                  !.before = updater.applied]
    /\ UpdaterFrame

\* NetworkConfigurationUpdater updater(&provider_, &network_library_)
Construct ==
    /\ ~updater.constructed
    /\ updater' = ApplyNetworkConfigurations(
                      [updater EXCEPT !.constructed = TRUE, !.loads = <<>>,
                                      !.event = "Construct",
                                      !.before = updater.applied])
    /\ UpdaterFrame

\* provider_.NotifyPolicyUpdated()
NotifyPolicyUpdated ==
    /\ updater.constructed
    /\ updater' = ApplyNetworkConfigurations(
                      [updater EXCEPT !.loads = <<>>,
                                      !.event = "NotifyPolicyUpdated",
                                      !.before = updater.applied])
    /\ UpdaterFrame

NextUpdater ==
    \/ \E name \in PolicyNames, value \in PolicyValues : PolicySet(name, value)
    \/ \E name \in PolicyNames : PolicyErase(name)
    \/ Construct
    \/ NotifyPolicyUpdated

SpecUpdater == InitLibrary /\ [][NextUpdater]_vars


\* The last call was SetState(s) and it changed the state from `from`.
Transition(from, s) ==
    /\ call.op = "SetState"
    /\ call.arg = s
    /\ old.state = from
    /\ from # s

\* The last call was a SetState that changed the state.
StateChanged == call.op = "SetState" /\ call.arg # old.state

TypeOK ==
    /\ net.state \in ConnectionState
    /\ net.error \in ConnectionError
    /\ net.ip_address \in Addresses

(***************************************************************************)
(* The connection-state mirror.                                            *)
(***************************************************************************)

\* C1: SetState called with the network's current state is a no-op: state,
\* error, notify_failure, connection_started and ip_address are unchanged
\* and InitIPAddress is not run.
C1_SetStateSameStateIsNoOp ==
    (call.op = "SetState" /\ call.arg = old.state)
        => /\ net.state = old.state
           /\ net.error = old.error
           /\ net.notify_failure = old.notify_failure
           /\ net.connection_started = old.connection_started
           /\ net.ip_address = old.ip_address
           /\ ~refreshed

\* SetState(STATE_READY) was called on a started, connected network that
\* holds an address.
C1_Witness ==
    /\ call.op = "SetState" /\ call.arg = old.state
    /\ net.state = "STATE_READY"
    /\ net.ip_address # ""
    /\ net.connection_started

\* C2: SetState(STATE_FAILURE) leaves notify_failure unchanged when the
\* previous state is STATE_UNKNOWN or STATE_IDLE and sets it to TRUE when
\* the previous state is any other state.
C2_NotifyFailureIffNotUnknownOrIdle ==
    \A from \in ConnectionState :
        Transition(from, "STATE_FAILURE")
            => net.notify_failure =
                   IF from \in {"STATE_UNKNOWN", "STATE_IDLE"}
                   THEN old.notify_failure
                   ELSE TRUE

\* A failure entered from STATE_IDLE, the flag still off.
C2_Witness ==
    /\ Transition("STATE_IDLE", "STATE_FAILURE")
    /\ ~net.notify_failure

\* C3: entering STATE_FAILURE from Association, Configuration, Ready,
\* Portal, Online or Carrier sets notify_failure, defaults the error to
\* ERROR_UNKNOWN when it was ERROR_NO_ERROR and keeps any other code.
C3_NewFailureDefaultsError ==
    \A from \in {"STATE_ASSOCIATION", "STATE_CONFIGURATION", "STATE_READY",
                 "STATE_PORTAL", "STATE_ONLINE", "STATE_CARRIER"} :
        Transition(from, "STATE_FAILURE")
            => /\ net.notify_failure
               /\ net.error = IF old.error = "ERROR_NO_ERROR"
                              THEN "ERROR_UNKNOWN" ELSE old.error

\* A cellular network fails from STATE_READY with a recorded error code.
C3_Witness ==
    /\ net.type = "TYPE_CELLULAR"
    /\ Transition("STATE_READY", "STATE_FAILURE")
    /\ old.error = "ERROR_BAD_PASSPHRASE"
    /\ net.error = "ERROR_BAD_PASSPHRASE"

\* C4 (as claimed): whenever the state is STATE_FAILURE the error code is
\* not ERROR_NO_ERROR, under any sequence of SetState calls on a freshly
\* constructed network.
C4_FailureAlwaysHasError ==
    net.state = "STATE_FAILURE" => net.error # "ERROR_NO_ERROR"

\* C4 (amended): under any sequence of SetState calls on a freshly
\* constructed network, a network in STATE_FAILURE whose notify-failure flag
\* is set (a failure entered from a state other than Unknown and Idle was
\* seen) has an error code other than ERROR_NO_ERROR.
C4_NotifiedFailureHasError ==
    (net.state = "STATE_FAILURE" /\ net.notify_failure)
        => net.error # "ERROR_NO_ERROR"

\* A notified failure whose error code was defaulted.
C4_Witness ==
    /\ Transition("STATE_CONFIGURATION", "STATE_FAILURE")
    /\ net.notify_failure
    /\ old.error = "ERROR_NO_ERROR"
    /\ net.error = "ERROR_UNKNOWN"

\* C5: SetState accepts every pair (current state, new state): after
\* SetState(s) the state is s.
C5_TransitionTotal ==
    \A from \in ConnectionState, s \in ConnectionState :
        (call.op = "SetState" /\ call.arg = s /\ old.state = from)
            => net.state = s

\* A network leaves STATE_FAILURE for STATE_ONLINE.
C5_Witness ==
    /\ Transition("STATE_FAILURE", "STATE_ONLINE")
    /\ net.state = "STATE_ONLINE"

\* C6: a state-changing SetState runs InitIPAddress exactly when the new
\* state is not STATE_FAILURE.
C6_RefreshIffNotFailure ==
    StateChanged => (refreshed <=> call.arg # "STATE_FAILURE")

\* A connected network that holds an address fails: no refresh.
C6_Witness ==
    /\ Transition("STATE_ONLINE", "STATE_FAILURE")
    /\ old.ip_address # ""
    /\ ~refreshed

\* C7 (as claimed): a state change whose previous state is not a connecting
\* state clears connection_started.
C7_LeavingNonConnectingClearsStarted ==
    (StateChanged /\ ~IsConnectingState(old.state))
        => ~net.connection_started

\* C7 (amended): a state change whose new state is not a connecting state
\* clears connection_started; a state change into a connecting state leaves
\* the flag as it was.
C7_EnteringNonConnectingClearsStarted ==
    StateChanged
        => net.connection_started =
               IF IsConnectingState(call.arg)
               THEN old.connection_started
               ELSE FALSE

\* A started connection moves from a connecting state to STATE_READY.
C7_Witness ==
    /\ Transition("STATE_CONFIGURATION", "STATE_READY")
    /\ old.connection_started
    /\ ~net.connection_started

\* C8 (as claimed): after a transition into STATE_READY or STATE_ONLINE the
\* error code is ERROR_NO_ERROR.
C8_ConnectedClearsError ==
    (StateChanged /\ call.arg \in {"STATE_READY", "STATE_ONLINE"})
        => net.error = "ERROR_NO_ERROR"

\* C8 (amended): a transition into STATE_READY or STATE_ONLINE leaves the
\* error code as it was before the transition.
C8_ConnectedKeepsError ==
    (StateChanged /\ call.arg \in {"STATE_READY", "STATE_ONLINE"})
        => net.error = old.error

\* A network with a recorded error reaches STATE_ONLINE.
C8_Witness ==
    /\ Transition("STATE_FAILURE", "STATE_ONLINE")
    /\ old.error = "ERROR_BAD_PASSPHRASE"
    /\ net.error = "ERROR_BAD_PASSPHRASE"

\* C9: a transition from STATE_FAILURE into STATE_IDLE does not set
\* notify_failure and does not change the error code.
C9_FailureToIdleIsNoFailure ==
    Transition("STATE_FAILURE", "STATE_IDLE")
        => /\ net.notify_failure = old.notify_failure
           /\ net.error = old.error

\* A failure that was not notified is left for STATE_IDLE.
C9_Witness ==
    /\ Transition("STATE_FAILURE", "STATE_IDLE")
    /\ ~net.notify_failure
    /\ net.error = "ERROR_NO_ERROR"

(***************************************************************************)
(* The certificate-pattern suspension point.                               *)
(***************************************************************************)
\* The last call was AttemptConnection on a Wifi or VPN network, which is
\* MatchCertificatePattern.
MatchCalled ==
    /\ call.op = "AttemptConnection"
    /\ net.type \in {"TYPE_WIFI", "TYPE_VPN"}

\* C10: whatever the pattern, the certificate store and the enrollment
\* handler are, one MatchCertificatePattern call runs the closure at most
\* once, and it does not run the closure when it hands it to the enrollment
\* handler.
C10_MatchIsSingleShot ==
    MatchCalled
        => /\ CountEvents(events, "Run") <= 1
           /\ ~(CountEvents(events, "Enroll") > 0
                /\ CountEvents(events, "Run") > 0)

\* No certificate matched on a VPN with an enrollment handler: the closure
\* went to the handler and was not run.
C10_Witness ==
    /\ MatchCalled
    /\ net.type = "TYPE_VPN"
    /\ call.arg = NoCert
    /\ net.enrollment_handler
    /\ CountEvents(events, "Enroll") = 1
    /\ CountEvents(events, "Run") = 0
    /\ attempts \in held

\* The certificate store was queried by the last MatchCertificatePattern.
MatchQueried == MatchCalled /\ CountEvents(events, "GetMatch") = 1

\* The field that holds the client certificate id of the network.
CertIdField ==
    IF net.type = "TYPE_WIFI" THEN "eap_client_cert_pkcs11_id"
    ELSE "client_cert_id"

\* The client-cert type the network had when the last call began.
OldCertType ==
    IF net.type = "TYPE_WIFI" THEN old.eap_client_cert_type
    ELSE old.client_cert_type

\* The last call ran its closure once, as the last thing it did.
RanOnceAtEnd ==
    /\ CountEvents(events, "Run") = 1
    /\ events[Len(events)].ev = "Run"
    /\ runs[attempts] = 1

\* C11: no certificate matches and an enrollment handler is configured:
\* Enroll is called once with the pattern's enrollment URI list and the
\* closure of the call, the closure is not run, and neither the
\* client-cert-id field nor a daemon property is written.
C11_NoMatchEnrolls ==
    (MatchQueried /\ call.arg = NoCert /\ old.enrollment_handler)
        => /\ CountEvents(events, "Enroll") = 1
           /\ events[Len(events)].ev = "Enroll"
           /\ events[Len(events)].value =
                  old.client_cert_pattern.enrollment_uri_list
           /\ events[Len(events)].prop = attempts
           /\ attempts \in held
           /\ CountEvents(events, "Run") = 0
           /\ runs[attempts] = 0
           /\ net = old
           /\ daemon = old_daemon

\* A Wifi network with a pattern that names an enrollment URI is enrolled.
C11_Witness ==
    /\ MatchQueried
    /\ net.type = "TYPE_WIFI"
    /\ call.arg = NoCert
    /\ old.enrollment_handler
    /\ old.client_cert_pattern.enrollment_uri_list # <<>>
    /\ attempts \in held

\* What the daemon holds after the certificate id `id` was written by
\* MatchCertificatePattern with libcros loaded.
DaemonAfterMatch(id) ==
    IF net.type = "TYPE_WIFI"
    THEN [old_daemon EXCEPT
              ![kEapCertIdProperty] = IF id = "" THEN Unset ELSE id,
              ![kEapKeyIdProperty] = IF id = "" THEN Unset ELSE id]
    ELSE IF old.provider_type = "PROVIDER_TYPE_OPEN_VPN"
         THEN [old_daemon EXCEPT ![kOpenVPNClientCertIdProperty] = id]
         ELSE [old_daemon EXCEPT ![kL2tpIpsecClientCertIdProperty] = id]

\* C12 (as claimed): a certificate matches: its PKCS#11 id is in the
\* client-cert-id field and in the daemon property (the OpenVPN one iff the
\* provider type is OPEN_VPN, else the L2TP/IPsec one; the EAP ones for
\* Wifi) before the closure runs, the closure runs once, Enroll is not
\* called.
C12_MatchWritesFieldAndDaemon ==
    (MatchQueried /\ call.arg # NoCert)
        => /\ net[CertIdField] = call.arg
           /\ IF net.type = "TYPE_WIFI"
              THEN /\ daemon[kEapCertIdProperty] = call.arg
                   /\ daemon[kEapKeyIdProperty] = call.arg
              ELSE IF old.provider_type = "PROVIDER_TYPE_OPEN_VPN"
                   THEN daemon[kOpenVPNClientCertIdProperty] = call.arg
                   ELSE daemon[kL2tpIpsecClientCertIdProperty] = call.arg
           /\ RanOnceAtEnd
           /\ CountEvents(events, "Enroll") = 0

\* C12 (amended): a certificate matches: its PKCS#11 id is in the
\* client-cert-id field; when libcros is loaded the daemon property holds
\* it too (the OpenVPN one iff the provider type is OPEN_VPN, else the
\* L2TP/IPsec one; for Wifi the EAP CertID and KeyID, which are cleared when
\* the id is empty) and no other property changed; when libcros is not
\* loaded the daemon is not written.  All of this is done before the
\* closure runs, the closure runs once, Enroll is not called.
C12_MatchWritesFieldThenRuns ==
    (MatchQueried /\ call.arg # NoCert)
        => /\ net = [old EXCEPT ![CertIdField] = call.arg]
           /\ daemon = IF cros_loaded THEN DaemonAfterMatch(call.arg)
                       ELSE old_daemon
           /\ RanOnceAtEnd
           /\ CountEvents(events, "Enroll") = 0
           /\ attempts \notin held

\* An OpenVPN network with an enrollment handler finds a certificate.
C12_Witness ==
    /\ MatchQueried
    /\ net.type = "TYPE_VPN"
    /\ old.provider_type = "PROVIDER_TYPE_OPEN_VPN"
    /\ old.enrollment_handler
    /\ cros_loaded
    /\ call.arg = "id1"
    /\ old.client_cert_id # "id1"
    /\ daemon[kOpenVPNClientCertIdProperty] = "id1"
    /\ daemon[kL2tpIpsecClientCertIdProperty] = Unset

\* C13: no certificate matches and no enrollment handler is configured: the
\* closure runs once before the call returns, and the client-cert-id field,
\* the daemon's properties and the error code are unchanged.
C13_NoMatchNoHandlerRuns ==
    (MatchQueried /\ call.arg = NoCert /\ ~old.enrollment_handler)
        => /\ RanOnceAtEnd
           /\ CountEvents(events, "Enroll") = 0
           /\ attempts \notin held
           /\ net[CertIdField] = old[CertIdField]
           /\ net.error = old.error
           /\ net = old
           /\ daemon = old_daemon

\* A VPN that holds a certificate id from an earlier match finds none now.
C13_Witness ==
    /\ MatchQueried
    /\ net.type = "TYPE_VPN"
    /\ call.arg = NoCert
    /\ ~old.enrollment_handler
    /\ net.client_cert_id = "id2"
    /\ runs[attempts] = 1

\* C14 (as claimed): with an empty pattern MatchCertificatePattern runs the
\* closure once and does nothing else: no query of the certificate store,
\* no property write, no Enroll.
C14_EmptyPatternRunsAtOnce ==
    (MatchCalled /\ old.client_cert_pattern.empty)
        => /\ Len(events) = 1
           /\ events[1].ev = "Run"
           /\ runs[attempts] = 1
           /\ net = old
           /\ daemon = old_daemon

\* The connection attempt took the one path on which the closure goes to the
\* enrollment handler.
EnrollPath ==
    /\ net.type \in {"TYPE_WIFI", "TYPE_VPN"}
    /\ ~old.client_cert_pattern.empty
    /\ call.arg = NoCert
    /\ old.enrollment_handler

\* C15 (as claimed): AttemptConnection has run the closure when it returns
\* on every path but the enrollment path; on that path the closure is with
\* the enrollment handler and has not run.
C15_RunsUnlessEnrolling ==
    call.op = "AttemptConnection"
        => IF EnrollPath
           THEN runs[attempts] = 0 /\ attempts \in held
           ELSE runs[attempts] = 1 /\ attempts \notin held

\* C16: Network::AttemptConnection (Ethernet, Cellular) runs the closure
\* once before it returns and changes neither a field of the network nor a
\* property of the daemon.
C16_BaseAttemptRunsAtOnce ==
    (call.op = "AttemptConnection"
     /\ net.type \in {"TYPE_ETHERNET", "TYPE_CELLULAR"})
        => /\ Len(events) = 1
           /\ events[1].ev = "Run"
           /\ runs[attempts] = 1
           /\ attempts \notin held
           /\ net = old
           /\ daemon = old_daemon

\* A cellular network with a pattern and an enrollment handler configured
\* is connected: neither is looked at.
C16_Witness ==
    /\ call.op = "AttemptConnection"
    /\ net.type = "TYPE_CELLULAR"
    /\ ~net.client_cert_pattern.empty
    /\ net.enrollment_handler
    /\ runs[attempts] = 1

\* C17 (as claimed): whenever MatchCertificatePattern is entered from
\* AttemptConnection the client-cert type is CLIENT_CERT_TYPE_PATTERN and
\* the pattern is not empty.
C17_MatchOnlyWithPattern ==
    MatchCalled
        => /\ OldCertType = "CLIENT_CERT_TYPE_PATTERN"
           /\ ~old.client_cert_pattern.empty

(***************************************************************************)
(* The property map.                                                       *)
(***************************************************************************)
\* The last call was UpdatePropertyMap on network i and index x.
Updated(i, x) ==
    /\ call.op = "UpdatePropertyMap"
    /\ call.arg[1] = i
    /\ call.arg[2] = x

\* The addresses the entries of all property maps hold, one per entry.
EntryKeys == {<<i, x>> \in NetIds \X PropertyIndices : x \in DOMAIN property_map[i]}

\* C18: GetProperty(x) on a network finds an entry exactly when the latest
\* update of x was a set, and the value it returns is the value of that
\* set; it finds nothing when x was never set or was cleared last.
\* Clearing an index that has no entry changes nothing.
C18_LastWriterWins ==
    /\ \A i \in NetIds, x \in PropertyIndices :
          GetProperty(property_map[i], heap, x) =
              [found |-> last_update[i][x] # NoValue,
               value |-> last_update[i][x]]
    /\ \A i \in NetIds, x \in PropertyIndices :
          (Updated(i, x) /\ call.arg[3] = NullValue
           /\ x \notin DOMAIN old_property_map[i])
              => property_map = old_property_map /\ heap = old_heap

\* An entry that held v1 was overwritten with v2, and the caller's value
\* has been deleted since.
C18_Witness ==
    /\ call.op = "DeleteValue"
    /\ caller_values = {}
    /\ \E i \in NetIds, x \in PropertyIndices :
          /\ x \in DOMAIN old_property_map[i]
          /\ last_update[i][x] = "v2"
          /\ GetProperty(property_map[i], heap, x).value = "v2"
          /\ \E y \in PropertyIndices \ {x} :
                GetProperty(property_map[i], heap, y).value = "v1"

\* C19: UpdatePropertyMap on index x of network i changes no other entry of
\* that network and no entry of another network, and every entry owns its
\* value: no two entries hold the same address, no entry holds the address
\* of a caller's value, and every entry's value is alive.
C19_PropertyMapIsolation ==
    /\ \A i \in NetIds, x \in PropertyIndices :
          Updated(i, x) =>
              \A j \in NetIds, y \in PropertyIndices :
                  <<j, y>> # <<i, x>> =>
                      /\ (y \in DOMAIN property_map[j])
                             <=> (y \in DOMAIN old_property_map[j])
                      /\ y \in DOMAIN property_map[j] =>
                             /\ property_map[j][y] = old_property_map[j][y]
                             /\ heap[property_map[j][y]] =
                                    old_heap[old_property_map[j][y]]
    /\ \A k1 \in EntryKeys, k2 \in EntryKeys :
          k1 # k2 => property_map[k1[1]][k1[2]] # property_map[k2[1]][k2[2]]
    /\ \A k \in EntryKeys :
          /\ property_map[k[1]][k[2]] \notin caller_values
          /\ heap[property_map[k[1]][k[2]]] # Free

\* Both networks hold an entry of the same index, and one of them was just
\* overwritten from a value the caller still owns.
C19_Witness ==
    /\ \E x \in PropertyIndices :
          /\ Updated(1, x)
          /\ x \in DOMAIN old_property_map[1]
          /\ x \in DOMAIN property_map[2]
          /\ call.arg[3] \in caller_values
          /\ heap[property_map[1][x]] # heap[property_map[2][x]]

(***************************************************************************)
(* Status updates.                                                         *)
(***************************************************************************)
\* The last call was UpdateStatus on the network or on the device.
StatusCalled ==
    call.op \in {"Network::UpdateStatus", "NetworkDevice::UpdateStatus"}

\* The parser of the entity the last UpdateStatus call was made on.
CalledParser ==
    IF call.op = "Network::UpdateStatus" THEN network_parser
    ELSE device_parser

\* C20: UpdateStatus returns what the installed parser returns for the key;
\* with no parser installed, or on a key the parser does not recognize, it
\* returns FALSE and leaves every field of the network and of the device
\* unchanged, and the process goes on.
C20_UpdateStatusFollowsParser ==
    StatusCalled
        => /\ CalledParser.installed
                => /\ parser_return # <<>>
                   /\ status_result = parser_return[1]
                   /\ status_result = (call.arg[1] \in CalledParser.recognizes)
           /\ ~CalledParser.installed
                => parser_return = <<>> /\ status_result = FALSE
           /\ ~status_result
                => net = old /\ device = old_device /\ ~crashed

\* A network with a parser that recognizes "Error" only gets a "Device"
\* message while it holds a recorded error.
C20_Witness ==
    /\ call.op = "Network::UpdateStatus"
    /\ network_parser.installed
    /\ call.arg[1] = "Device"
    /\ call.arg[2] # net.device_path
    /\ net.error = "ERROR_BAD_PASSPHRASE"
    /\ ~status_result

(***************************************************************************)
(* Unique ids.                                                             *)
(***************************************************************************)
\* CalculateUniqueId has been called on the network: the ids it computes
\* for the networks of IdentifiedNetworks are not empty.
Calculated(n) == n.unique_id # ""

\* The security class a Wifi network is filed under: WPA and RSN count as
\* PSK.
SecurityClass(n) ==
    IF n.encryption \in {"SECURITY_WPA", "SECURITY_RSN"}
    THEN "SECURITY_PSK"
    ELSE n.encryption

\* The two networks are of the same kind and agree on the identity fields
\* documented for that kind.
SameIdentity(a, b) ==
    CASE a.type = "TYPE_WIFI" ->
            /\ b.type = "TYPE_WIFI"
            /\ SecurityClass(a) = SecurityClass(b)
            /\ a.name = b.name
      [] a.type = "TYPE_VPN" ->
            /\ b.type = "TYPE_VPN"
            /\ a.provider_type = b.provider_type
            /\ a.server_hostname = b.server_hostname
      [] OTHER ->
            /\ b.type \in {"TYPE_ETHERNET", "TYPE_CELLULAR"}
            /\ a.name = b.name

\* C21: after CalculateUniqueId, two networks that agree on the documented
\* identity fields (name for Ethernet and Cellular; security class and name
\* for Wifi, WPA and RSN counting as PSK; provider type and server hostname
\* for VPN) have equal unique ids, whatever their service paths; and a
\* repeated CalculateUniqueId leaves the unique id as it was.
C21_UniqueIdFromIdentityFields ==
    /\ (Calculated(net) /\ Calculated(other) /\ SameIdentity(net, other))
           => net.unique_id = other.unique_id
    /\ (call.op = "CalculateUniqueId" /\ Calculated(old))
           => Object(call.arg).unique_id = old.unique_id

\* A WPA and a PSK Wifi network of the same name, on different service
\* paths, have both had their ids calculated, the first of them twice.
C21_Witness ==
    /\ net.type = "TYPE_WIFI" /\ other.type = "TYPE_WIFI"
    /\ net.encryption = "SECURITY_WPA" /\ other.encryption = "SECURITY_PSK"
    /\ net.name = other.name
    /\ net.service_path # other.service_path
    /\ Calculated(net) /\ Calculated(other)
    /\ call.op = "CalculateUniqueId" /\ call.arg = "net" /\ Calculated(old)

\* C22: only CalculateUniqueId assigns unique_id: SetName, SetSsid,
\* SetHexSsid, SetState, set_encryption, the credential setters and
\* EraseCredentials leave it as it was, so it is stale after the name has
\* changed.
C22_UniqueIdOnlyByCalculate ==
    call.op \notin {"construct", "CalculateUniqueId"}
        => net.unique_id = old.unique_id

\* SetHexSsid has changed the name of a network whose unique id had been
\* calculated: the unique id is the old one, not the one of the new name.
C22_Witness ==
    /\ call.op = "SetHexSsid"
    /\ net.name # old.name
    /\ old.unique_id # ""
    /\ net.unique_id = old.unique_id
    /\ net.unique_id # CalculateUniqueId(net).unique_id

\* The strings the hex dumps of HexSsidInputs are dumps of.
HexDumps ==
    ("48656c6c6f" :> "Hello") @@ ("48656C6C6F" :> "Hello") @@
    ("480969" :> "H\ti")

\* The names those strings make: the control character has become U+FFFD.
HexNames ==
    ("48656c6c6f" :> "Hello") @@ ("48656C6C6F" :> "Hello") @@
    ("480969" :> "H<U+FFFD>i")

C26_EraseCredentialsEmptiesSecrets ==
    /\ call.op = "EraseCredentials"
           => /\ \A f \in CredentialsOf(net.type) : net[f] = ""
              /\ net.type = "TYPE_WIFI"
                     => WifiNetwork_GetPassphrase(net) = ""
    /\ (call.op = "GetPassphrase" /\ \A f \in WifiCredentials : net[f] = "")
           => returned = <<"">>

\* EraseCredentials was called on a Wifi network that held all six
\* credentials.
C26_Witness ==
    /\ call.op = "EraseCredentials"
    /\ net.type = "TYPE_WIFI"
    /\ \A f \in WifiCredentials : old[f] # ""

\* C27: the wipe is zero-then-clear: between the two statements of
\* WipeString the credential has the length it had and holds only NUL
\* characters, and after them it is empty.
C27_WipeZeroesThenClears ==
    call.op = "EraseCredentials"
        => \A f \in CredentialsOf(net.type) :
              /\ Len(wiped[f]) = Len(old[f])
              /\ \A i \in 1..Len(wiped[f]) : wiped[f][i] = NUL
              /\ net[f] = ""

\* EraseCredentials was called on a VPN that held all four credentials.
C27_Witness ==
    /\ call.op = "EraseCredentials"
    /\ net.type = "TYPE_VPN"
    /\ \A f \in VirtualCredentials : old[f] # "" /\ wiped[f] # <<>>

(***************************************************************************)
(* Prefix lengths.                                                         *)
(***************************************************************************)
\* The token of a mask byte with k leading one-bits.
MaskByte(k) ==
    <<"0", "128", "192", "224", "240", "248", "252", "254", "255">>[k + 1]

\* The canonical netmask of p leading one-bits: four tokens, full bytes
\* first, then the byte the prefix ends in, then zeros.
CanonicalNetmask(p) ==
    [i \in 1..4 |->
        LET left == p - 8 * (i - 1)
        IN  MaskByte(IF left >= 8 THEN 8 ELSE IF left <= 0 THEN 0 ELSE left)]

\* C25: GetPrefixLength returns p when the netmask is the canonical netmask
\* of p leading one-bits, 0 <= p <= 32 (24 for 255.255.255.0, 17 for
\* 255.255.128.0), and -1 for every other netmask (255.224.255.0, a token
\* that is not a mask byte, fewer or more than four tokens).
C25_PrefixLengthOfCanonicalNetmask ==
    call.op = "GetPrefixLength"
        => /\ \A p \in 0..32 :
                 ipconfig.netmask = CanonicalNetmask(p) <=> returned = <<p>>
           /\ (\A p \in 0..32 : ipconfig.netmask # CanonicalNetmask(p))
                 <=> returned = <<-1>>
           /\ ipconfig.netmask = <<"255", "255", "255", "0">>
                 => returned = <<24>>
           /\ ipconfig.netmask = <<"255", "255", "128", "0">>
                 => returned = <<17>>
           /\ ipconfig.netmask = <<"255", "224", "255", "0">>
                 => returned = <<-1>>

\* GetPrefixLength was called on 255.255.128.0 and returned 17.
C25_Witness ==
    /\ call.op = "GetPrefixLength"
    /\ ipconfig.netmask = <<"255", "255", "128", "0">>
    /\ returned = <<17>>

(***************************************************************************)
(* Cellular data plans.                                                    *)
(***************************************************************************)
\* The larger of two numbers.
Max(a, b) == IF a >= b THEN a ELSE b

\* C24: remaining_data is max(0, plan_data_bytes - data_bytes_used) and
\* remaining_time is max(0, plan_end_time - now), for byte counts and times
\* that are not negative; neither is ever negative.
C24_RemainingIsClampedDifference ==
    /\ call.op = "remaining_data"
           => /\ returned[1] =
                    Max(0, plans[call.arg].plan_data_bytes
                               - plans[call.arg].data_bytes_used)
              /\ returned[1] >= 0
    /\ call.op = "remaining_time"
           => /\ returned[1] = Max(0, plans[call.arg].plan_end_time - now)
              /\ returned[1] >= 0

\* remaining_data was called on a plan whose usage exceeds its allocation,
\* after the plan had expired.
C24_Witness ==
    /\ call.op = "remaining_data"
    /\ plans[1].data_bytes_used > plans[1].plan_data_bytes
    /\ plans[1].plan_end_time < now
    /\ returned = <<0>>

\* The two plans agree on name, type, start time, end time and byte cap.
SamePlan(a, b) ==
    /\ a.plan_name = b.plan_name
    /\ a.plan_type = b.plan_type
    /\ a.plan_start_time = b.plan_start_time
    /\ a.plan_end_time = b.plan_end_time
    /\ a.plan_data_bytes = b.plan_data_bytes

\* C30: two plans have equal unique identifiers exactly when they agree on
\* name, type, start time, end time and byte cap, whatever their
\* data_bytes_used and update_time.
C30_IdentifierOfFiveFields ==
    DOMAIN returned = PlanIds
        => (returned[1] = returned[2] <=> SamePlan(plans[1], plans[2]))

\* Both plans have returned their identifiers; they agree on the five
\* fields and differ in usage and update time.
C30_Witness ==
    /\ DOMAIN returned = PlanIds
    /\ SamePlan(plans[1], plans[2])
    /\ plans[1].data_bytes_used # plans[2].data_bytes_used
    /\ plans[1].update_time # plans[2].update_time
    /\ returned[1] = returned[2]

(***************************************************************************)
(* What a network needs before it connects.                                *)
(***************************************************************************)
\* C28: NeedMoreInfoToConnect returns true for every VPN whose provider
\* type is OpenVPN, whatever its other fields hold.
C28_OpenVpnAlwaysNeedsMoreInfo ==
    (call.op = "NeedMoreInfoToConnect"
     /\ net.provider_type = "PROVIDER_TYPE_OPEN_VPN")
        => returned = <<TRUE>>

\* NeedMoreInfoToConnect was called on an OpenVPN network that has a
\* host name, a user name, a user passphrase, a client certificate and no
\* error.
C28_Witness ==
    /\ call.op = "NeedMoreInfoToConnect"
    /\ net.provider_type = "PROVIDER_TYPE_OPEN_VPN"
    /\ net.server_hostname # "" /\ net.username # ""
    /\ net.user_passphrase # "" /\ net.client_cert_id # ""
    /\ net.error = "ERROR_NO_ERROR"
    /\ returned = <<TRUE>>

\* C29 as stated: RequiresUserProfile returns true for every VPN and for
\* every Wifi network with 802.1X encryption and the EAP method TLS.
C29_TlsRequiresUserProfile ==
    (call.op = "RequiresUserProfile"
     /\ \/ net.type = "TYPE_VPN"
        \/ /\ net.type = "TYPE_WIFI"
           /\ net.encryption = "SECURITY_8021X"
           /\ net.eap_method = "EAP_METHOD_TLS")
        => returned = <<TRUE>>

\* C29, amended: RequiresUserProfile returns true for every VPN, and for a
\* Wifi network exactly when its encryption is 802.1X, its EAP method is
\* TLS and it has a client certificate id or a certificate pattern; it
\* returns false for the networks of the other types.
C29_TlsWithCertRequiresUserProfile ==
    call.op = "RequiresUserProfile"
        => returned[1] =
              CASE net.type = "TYPE_VPN" -> TRUE
                [] net.type = "TYPE_WIFI" ->
                      /\ net.encryption = "SECURITY_8021X"
                      /\ net.eap_method = "EAP_METHOD_TLS"
                      /\ \/ net.eap_client_cert_pkcs11_id # ""
                         \/ net.eap_client_cert_type = "CLIENT_CERT_TYPE_PATTERN"
                [] OTHER -> FALSE

\* RequiresUserProfile was called on an 802.1X TLS Wifi network that has
\* neither a client certificate id nor a certificate pattern.
C29_Witness ==
    /\ call.op = "RequiresUserProfile"
    /\ net.type = "TYPE_WIFI"
    /\ net.encryption = "SECURITY_8021X"
    /\ net.eap_method = "EAP_METHOD_TLS"
    /\ net.eap_client_cert_pkcs11_id = ""
    /\ net.eap_client_cert_type = "CLIENT_CERT_TYPE_REF"
    /\ returned = <<FALSE>>

(***************************************************************************)
(* What state changes keep.                                                *)
(***************************************************************************)
\* C35: no SetState call takes notify_failure from true to false or the
\* error code from a recorded error to ERROR_NO_ERROR; SetState changes the
\* error code only from ERROR_NO_ERROR to ERROR_UNKNOWN, in a transition
\* into STATE_FAILURE that sets notify_failure.
C35_FailureRecordIsMonotonic ==
    call.op = "SetState"
        => /\ old.notify_failure => net.notify_failure
           /\ old.error # "ERROR_NO_ERROR" => net.error = old.error
           /\ net.error # old.error
                 => /\ old.error = "ERROR_NO_ERROR"
                    /\ net.error = "ERROR_UNKNOWN"
                    /\ call.arg = "STATE_FAILURE"
                    /\ net.notify_failure

\* A notified failure with a recorded error is left for STATE_READY, and
\* both the notification and the error are still there.
C35_Witness ==
    /\ Transition("STATE_FAILURE", "STATE_READY")
    /\ old.notify_failure /\ net.notify_failure
    /\ old.error = "ERROR_UNKNOWN" /\ net.error = "ERROR_UNKNOWN"

\* C36 as stated: after a state change to a state other than STATE_FAILURE
\* ip_address is the first non-empty address of the device's listing when
\* the new state is a connected state and device_path is set, and empty
\* otherwise; a transition into STATE_FAILURE keeps ip_address.
C36_AddressFollowsListing ==
    StateChanged
        => IF call.arg = "STATE_FAILURE"
           THEN net.ip_address = old.ip_address
           ELSE net.ip_address =
                   IF IsConnectedState(call.arg) /\ net.device_path # ""
                   THEN FirstAddress(returned)
                   ELSE ""

\* C36, amended: the address is taken from the listing only when the
\* library is loaded as well; when it is not, the state change leaves
\* ip_address empty.
C36_AddressFollowsListingWhenLoaded ==
    StateChanged
        => IF call.arg = "STATE_FAILURE"
           THEN net.ip_address = old.ip_address
           ELSE net.ip_address =
                   IF cros_loaded /\ IsConnectedState(call.arg)
                      /\ net.device_path # ""
                   THEN FirstAddress(returned)
                   ELSE ""

\* A network that took its address from the listing while connected fails
\* and keeps the address.
C36_Witness ==
    /\ Transition("STATE_READY", "STATE_FAILURE")
    /\ cros_loaded
    /\ old.ip_address = "10.0.0.1"
    /\ net.ip_address = "10.0.0.1"

(***************************************************************************)
(* The two passphrases of a Wifi network.                                  *)
(***************************************************************************)
\* The step is SetPassphrase("") and the call before it was SetPassphrase
\* of a passphrase that is not empty.
SetThenRestored ==
    /\ call.op = "SetPassphrase" /\ call.arg # ""
    /\ call'.op = "SetPassphrase" /\ call'.arg = ""

\* C34: SetPassphrase leaves passphrase_, the passphrase the daemon
\* remembers, as it is, and after SetPassphrase(p) with p not empty followed
\* by SetPassphrase("") GetPassphrase returns the passphrase the daemon
\* remembered before the first of the two calls.
C34_EmptyPassphraseRestoresRemembered ==
    [][/\ call'.op = "SetPassphrase" => net'.passphrase = net.passphrase
       /\ SetThenRestored
             => WifiNetwork_GetPassphrase(net') = old.passphrase]_vars

(***************************************************************************)
(* The client certificate id of a Wifi network.                            *)
(***************************************************************************)
\* What the daemon holds for a property that was set to id or, when id is
\* empty, cleared.
SetOrCleared(id) == IF id = "" THEN Unset ELSE id

\* C37 as stated: at all times the daemon's EAP CertID and KeyID are both
\* the id of the local eap_client_cert_pkcs11_id field, or both cleared
\* when that id is empty, and after SetEAPClientCertPkcs11Id(id) the field
\* is id.
C37_CertIdAndKeyIdFollowField ==
    /\ daemon[kEapCertIdProperty] = SetOrCleared(net.eap_client_cert_pkcs11_id)
    /\ daemon[kEapKeyIdProperty] = SetOrCleared(net.eap_client_cert_pkcs11_id)
    /\ call.op = "SetEAPClientCertPkcs11Id"
          => net.eap_client_cert_pkcs11_id = call.arg

\* C37, amended: the daemon's EAP CertID and KeyID are equal at all times;
\* when the library is loaded both are the id of the local field, or both
\* cleared when it is empty; when the library is not loaded the daemon is
\* not written and both stay as they were.  After
\* SetEAPClientCertPkcs11Id(id) the field is id in either case.
C37_CertIdAndKeyIdInLockStep ==
    /\ daemon[kEapCertIdProperty] = daemon[kEapKeyIdProperty]
    /\ daemon[kEapCertIdProperty] =
          IF cros_loaded THEN SetOrCleared(net.eap_client_cert_pkcs11_id)
          ELSE Unset
    /\ call.op = "SetEAPClientCertPkcs11Id"
          => net.eap_client_cert_pkcs11_id = call.arg

\* The id was set by a matched certificate pattern and is then cleared by
\* SetEAPClientCertPkcs11Id(""): both properties of the daemon are cleared.
C37_Witness ==
    /\ call.op = "SetEAPClientCertPkcs11Id"
    /\ call.arg = ""
    /\ cros_loaded
    /\ attempts > 0
    /\ old.eap_client_cert_pkcs11_id = "id2"
    /\ old_daemon[kEapCertIdProperty] = "id2"
    /\ old_daemon[kEapKeyIdProperty] = "id2"
    /\ daemon[kEapCertIdProperty] = Unset
    /\ daemon[kEapKeyIdProperty] = Unset
    /\ net.eap_client_cert_pkcs11_id = ""

(***************************************************************************)
(* The EAP method and the phase-2 authentication of a Wifi network.        *)
(***************************************************************************)
\* The values the last call sent to the daemon for property prop.
Sent(prop) ==
    {events[i].value :
        i \in {j \in 1..Len(events) :
                  events[j].ev = "SetProperty" /\ events[j].prop = prop}}

\* The phase-2 value of auth in its PEAP variant or in its TTLS variant.
Phase2Variant(auth, is_peap) ==
    CASE auth = "EAP_PHASE_2_AUTH_MD5" ->
             IF is_peap THEN kEapPhase2AuthPEAPMD5 ELSE kEapPhase2AuthTTLSMD5
      [] auth = "EAP_PHASE_2_AUTH_MSCHAPV2" ->
             IF is_peap THEN kEapPhase2AuthPEAPMSCHAPV2
             ELSE kEapPhase2AuthTTLSMSCHAPV2

CopiedCredentials ==
    {"ca_cert_nss", "psk_passphrase", "client_cert_id", "username",
     "user_passphrase"}

\* C39: after CopyCredentialsFromRemembered each of the five credentials is
\* the remembered one if the local one was empty and the local one
\* otherwise, no other field of the network has changed, the remembered
\* network is as it was, and a second copy would change nothing.
C39_CopyFillsGapsOnly ==
    call.op = "CopyCredentialsFromRemembered"
        => /\ \A f \in CopiedCredentials :
                 net[f] = IF old[f] = "" THEN returned[1][f] ELSE old[f]
           /\ \A f \in DOMAIN net \ CopiedCredentials : net[f] = old[f]
           /\ other = returned[1]
           /\ VirtualNetwork_CopyCredentialsFromRemembered(net, other).n = net

\* A VPN with a user name of its own and no user passphrase took the
\* passphrase of the remembered VPN and kept its user name.
C39_Witness ==
    /\ call.op = "CopyCredentialsFromRemembered"
    /\ old.username = "mine" /\ other.username = "saved"
    /\ net.username = "mine"
    /\ old.user_passphrase = "" /\ net.user_passphrase = "saved"
    /\ old.ca_cert_nss = "" /\ other.ca_cert_nss = "" /\ net.ca_cert_nss = ""

(***************************************************************************)
(* Activation of a cellular network.                                       *)
(***************************************************************************)
\* C40: when the library is loaded and the daemon accepts the request,
\* StartActivation returns true with activation_state set to ACTIVATING and
\* nothing else changed; when the library is not loaded or the daemon call
\* fails it returns false and the network is as it was.
C40_StartActivationSetsActivating ==
    call.op = "StartActivation"
        => IF cros_loaded /\ call.arg
           THEN /\ returned = <<TRUE>>
                /\ net = [old EXCEPT
                             !.activation_state = "ACTIVATION_STATE_ACTIVATING"]
           ELSE /\ returned = <<FALSE>>
                /\ net = old

\* The daemon accepted the activation of a network that was not activated.
C40_Witness ==
    /\ call.op = "StartActivation"
    /\ call.arg
    /\ cros_loaded
    /\ old.activation_state = "ACTIVATION_STATE_NOT_ACTIVATED"
    /\ net.activation_state = "ACTIVATION_STATE_ACTIVATING"
    /\ returned = <<TRUE>>

(***************************************************************************)
(* The NetworkLibrary and the NetworkConfigurationUpdater.                 *)
(***************************************************************************)
\* The last event of the library was a service list.
ServiceListChanged == library.event.op = "UpdateNetworkServiceList"

\* The paths of that service list.
Listed == Range(library.event.arg)

\* C31: on a service-list-changed event a path that was already tracked
\* keeps its Network object, with the same identity, connection state and
\* in-flight flags, and a property fetch is requested for it: no network
\* is destroyed and constructed anew because it was listed again.
C31_RelistedNetworkIsKept ==
    ServiceListChanged =>
        \A path \in Listed \cap DOMAIN library.before :
            /\ path \in DOMAIN library.network_map
            /\ library.network_map[path] = library.before[path]
            /\ library.created[path] = library.before[path].object
            /\ path \in library.requested

\* A network with a connection in flight was listed again while another
\* tracked network was dropped from the list.
C31_Witness ==
    /\ ServiceListChanged
    /\ \E path \in Listed \cap DOMAIN library.before :
          /\ library.before[path].n.connection_started
          /\ library.before[path].n.state = "STATE_ASSOCIATION"
          /\ library.network_map[path].n.connection_started
    /\ DOMAIN library.before \ Listed # {}
    /\ Listed \ DOMAIN library.before # {}

\* The networks the secondary indices of the library refer to.
Indexed ==
    {library.network_unique_id_map[id] :
        id \in DOMAIN library.network_unique_id_map}
    \cup Range(library.wifi_networks) \cup Range(library.cellular_networks)
    \cup ({library.ethernet, library.active_wifi, library.active_cellular}
            \ {NULL})

LoadsFor(name) ==
    LET ForSource(load) == load.source = NameToONCSource(name)
    IN  SelectSeq(updater.loads, ForSource)

\* The one load of the current configuration of a policy.
OneLoad(name) ==
    << [onc        |-> NetworkConfigurationOf(updater, name),
        passphrase |-> "",
        source     |-> NameToONCSource(name)] >>

\* C33: the updater loads the configuration of each ONC policy into the
\* network library, with the ONC source of the policy name, once when it
\* is constructed and once per policy notification in which the value
\* changed; a notification with the same value loads nothing, and the
\* removal of a policy loads the empty configuration once.
C33_LoadsFollowPolicyChanges ==
    /\ Len(updater.loads) <= Cardinality(PolicyNames)
    /\ \A name \in PolicyNames :
          /\ updater.event = "Construct" => LoadsFor(name) = OneLoad(name)
          /\ updater.event = "NotifyPolicyUpdated" =>
                LoadsFor(name) =
                    IF NetworkConfigurationOf(updater, name)
                           # updater.before[name]
                    THEN OneLoad(name) ELSE <<>>
          /\ /\ updater.event = "NotifyPolicyUpdated"
             /\ updater.policy[name] = NoPolicy
             /\ updater.before[name] \in PolicyValues
             => /\ LoadsFor(name) = OneLoad(name)
                /\ LoadsFor(name)[1].onc = kEmptyConfiguration
          /\ updater.event \notin {"Construct", "NotifyPolicyUpdated"} =>
                LoadsFor(name) = <<>>

\* The device policy was removed and the user policy kept its value: the
\* notification loaded the empty configuration for the device policy only.
C33_Witness ==
    /\ updater.event = "NotifyPolicyUpdated"
    /\ updater.policy[kDeviceOpenNetworkConfiguration] = NoPolicy
    /\ updater.before[kDeviceOpenNetworkConfiguration] = kFakeONC
    /\ updater.policy[kOpenNetworkConfiguration] = kFakeONC
    /\ updater.before[kOpenNetworkConfiguration] = kFakeONC
    /\ Len(updater.loads) = 1

====
